---- MODULE Spec2Model ----
(***************************************************************************)
(* WealthAutomation: the affiliate offer library (scoring, matching, CTA   *)
(* rendering, CTA injection), the daily poster (duplicate guards, topic    *)
(* selection, history loaders, overlapping runs) and the cycle that        *)
(* generates, publishes and mails a post through the WordPress and         *)
(* ConvertKit integrations.                                                *)
(*                                                                         *)
(* Text is modelled as a sequence of one-character strings, so that case   *)
(* folding, substring search, regular-expression splitting and placeholder *)
(* replacement are computed character by character as Python does.         *)
(*                                                                         *)
(* Python values that may have the wrong type are tagged records:          *)
(*   a string field   [k : "str" | "absent" | "other", v : text]           *)
(*   a list field     [k : "list" | "absent" | "other", v : entries]       *)
(*   a list entry     [k : "str" | "other", v : text]                      *)
(*   a priority       [k : "num" | "absent" | "other", v : integer]        *)
(* An entry of the offers file is [isDict, id, url, keywords, categories,  *)
(* priority, ctaTemplates]; isDict = FALSE is a JSON value that is no      *)
(* object.                                                                 *)
(***************************************************************************)
EXTENDS Integers, Sequences, FiniteSets, TLC

VARIABLES
    source,                 \* the offers file: [kind, entries]
    offers,                 \* AffiliateOfferLibrary.offers
    title,                  \* blog_title of the content unit
    content,                \* blog_content_html of the content unit
    email,                  \* email_content_html of the content unit
    doc,                    \* the content that inject_cta_into_content is applied to
    injections,             \* number of injections applied to doc
    pc,                     \* step of run_wealthautomation_cycle
    selected_offer,         \* cycle local: index into offers, 0 = None
    blog_content_with_cta,  \* cycle local
    email_content_with_cta, \* cycle local
    recent_posts,           \* blog_post_log.txt: sequence of [title, timestamp]
    now,                    \* the clock, in days
    call,                   \* the last library call and what it returned
    recent_ctas,            \* cta_log.txt: sequence of [offer_name, timestamp]
    wp_integration,         \* JWTWordPressIntegration: [wp_user, wp_app_password, jwt_token]
    ck_integration,         \* ConvertKitV4Integration: [api_key_v4]
    results,                \* locals of the cycle's publish and email steps
    events,                 \* what the program did to the outside world, in order
    local_log,              \* a local log file as a history loader finds it: [kind, lines]
    sheets,                 \* the Google Sheets fallback: [configured, response, rows]
    runs,                   \* the run_daily_post invocations in progress, by caller
    make_webhook_url        \* MAKE_WEBHOOK_URL is set

vars == <<source, offers, title, content, email, doc, injections, pc,
          selected_offer, blog_content_with_cta, email_content_with_cta,
          recent_posts, now, call,
          recent_ctas, wp_integration, ck_integration, results, events,
          local_log, sheets, runs, make_webhook_url>>

\* the state of the daily poster and of the publishing pipeline
pipelineVars == <<recent_ctas, wp_integration, ck_integration, results, events>>

\* what the history loaders read, the callers of run_daily_post and the environment
environmentVars == <<local_log, sheets, runs, make_webhook_url>>

----------------------------------------------------------------------------
(* Bounds *)

MaxOffers == 2
MaxParas == 4
MaxInjections == 2
MaxNow == 8
MaxHistory == 2

----------------------------------------------------------------------------
(* Text primitives (Python str) *)

Lowers == <<"a","b","c","d","e","f","g","h","i","j","k","l","m",
            "n","o","p","q","r","s","t","u","v","w","x","y","z">>
Uppers == <<"A","B","C","D","E","F","G","H","I","J","K","L","M",
            "N","O","P","Q","R","S","T","U","V","W","X","Y","Z">>
Digits == {"0","1","2","3","4","5","6","7","8","9"}
Spaces == {" ", "\n", "\t"}

UpperSet == {Uppers[i] : i \in 1..26}
LowerSet == {Lowers[i] : i \in 1..26}

IsUpper(c) == c \in UpperSet
IsLower(c) == c \in LowerSet
IsSpace(c) == c \in Spaces
IsDigit(c) == c \in Digits

\* str.lower(), one character
LowerChar(c) == IF IsUpper(c) THEN Lowers[CHOOSE i \in 1..26 : Uppers[i] = c] ELSE c

\* str.lower()
Lower(s) == LET n == Len(s) IN SubSeq([i \in 1..n |-> LowerChar(s[i])], 1, n)

\* s[i:] starts with p
StartsAt(s, i, p) ==
    /\ i + Len(p) - 1 <= Len(s)
    /\ \A j \in 1..Len(p) : s[i + j - 1] = p[j]

\* Python's  n in h
HasSub(h, n) == \E i \in 1..(Len(h) - Len(n) + 1) : StartsAt(h, i, n)

\* the first index >= i of s that holds no whitespace (Len(s)+1 when none)
RECURSIVE SkipSpaces(_, _)
SkipSpaces(s, i) ==
    IF i <= Len(s) /\ IsSpace(s[i]) THEN SkipSpaces(s, i + 1) ELSE i

\* str.replace(old, new): every non-overlapping occurrence, left to right
RECURSIVE ReplaceFrom(_, _, _, _)
ReplaceFrom(s, i, old, new) ==
    IF i > Len(s) THEN <<>>
    ELSE IF StartsAt(s, i, old) THEN new \o ReplaceFrom(s, i + Len(old), old, new)
    ELSE <<s[i]>> \o ReplaceFrom(s, i + 1, old, new)

Replace(s, old, new) == ReplaceFrom(s, 1, old, new)

\* "".join(parts)
RECURSIVE Join(_)
Join(parts) == IF parts = <<>> THEN <<>> ELSE Head(parts) \o Join(Tail(parts))

\* list.insert(i, x) with a 0-based index i <= len
InsertAt(parts, i, x) == SubSeq(parts, 1, i) \o <<x>> \o SubSeq(parts, i + 1, Len(parts))

----------------------------------------------------------------------------
(* Tagged Python values *)

Str(s) == [k |-> "str", v |-> s]
\* a value that is no string: the number 7, v is what str() makes of it
NonStr == [k |-> "other", v |-> <<"7">>]
NoField == [k |-> "absent", v |-> <<>>]
List(es) == [k |-> "list", v |-> es]
NonList == [k |-> "other", v |-> <<>>]
Num(n) == [k |-> "num", v |-> n]
NoPriority == [k |-> "absent", v |-> 0]
NonNum == [k |-> "other", v |-> 0]

NonDict == [isDict |-> FALSE, id |-> NoField, url |-> NoField, keywords |-> NoField,
            categories |-> NoField, priority |-> NoPriority, ctaTemplates |-> NoField]

Offer(id, url, kws, cats, prio, tmpls) ==
    [isDict |-> TRUE, id |-> id, url |-> url, keywords |-> kws,
     categories |-> cats, priority |-> prio, ctaTemplates |-> tmpls]

\* offer.get(field, []) followed by  if not isinstance(x, list): x = []
ListOrEmpty(f) == IF f.k = "list" THEN f.v ELSE <<>>

\* GetPriority with the default 0
GetPriorityOrZero(offer) == IF offer.priority.k = "absent" THEN Num(0) ELSE offer.priority

\* offer.get("priority", 1)
GetPriority(offer) == IF offer.priority.k = "absent" THEN Num(1) ELSE offer.priority

\* isinstance(p, (int, float))
IsNumber(p) == p.k = "num"

----------------------------------------------------------------------------
(* AffiliateOfferLibrary._load_offers *)

\* _load_offers without the isinstance test of line 69
_load_offers_unfiltered(src) == IF src.kind # "ok" THEN <<>> ELSE src.entries

\* the kinds of source are "missing" (FileNotFoundError), "badjson" (JSONDecodeError),
\* "unreadable" (any other exception), "notdict" (no dict, or no "offers" key), "notlist"
\* and "ok"; every exception is caught
_load_offers(src) ==
    IF src.kind # "ok" THEN <<>>
    ELSE SelectSeq(src.entries, LAMBDA e : e.isDict)

----------------------------------------------------------------------------
(* AffiliateOfferLibrary._score_offer *)

\* Hit without the case folding of the entry
HitCaseSensitive(entry, text_lower) == entry.k = "str" /\ HasSub(text_lower, entry.v)

\* isinstance(entry, str) and entry.lower() in text_lower
Hit(entry, text_lower) == entry.k = "str" /\ HasSub(text_lower, Lower(entry.v))

\* for entry in entries: if <hit>: score += weight
RECURSIVE ScoreLoop(_, _, _)
ScoreLoop(entries, text_lower, weight) ==
    IF entries = <<>> THEN 0
    ELSE (IF Hit(Head(entries), text_lower) THEN weight ELSE 0)
         + ScoreLoop(Tail(entries), text_lower, weight)

\* PriorityScore with the priority taken as a rank that is subtracted
PriorityScoreSubtracted(offer) ==
    LET priority == GetPriority(offer) IN IF IsNumber(priority) THEN 0 - priority.v ELSE 0

\* if isinstance(priority, (int, float)): score += priority
PriorityScore(offer) ==
    LET priority == GetPriority(offer) IN IF IsNumber(priority) THEN priority.v ELSE 0

_score_offer(offer, body, ttl) ==
    IF ~offer.isDict THEN 0
    ELSE LET keywords == ListOrEmpty(offer.keywords)
             categories == ListOrEmpty(offer.categories)
             content_lower == Lower(body)
             title_lower == Lower(ttl)
         IN ScoreLoop(keywords, content_lower, 2)
            + ScoreLoop(keywords, title_lower, 5)
            + ScoreLoop(categories, content_lower, 1)
            + ScoreLoop(categories, title_lower, 3)
            + PriorityScore(offer)

----------------------------------------------------------------------------
(* AffiliateOfferLibrary.match_content_to_offer *)

\* TieBreak with >= for >: the last of several equal offers wins
TieBreakLastWins(score, highest_score, current_priority, best_priority) ==
    /\ score = highest_score
    /\ IsNumber(current_priority)
    /\ IsNumber(best_priority)
    /\ current_priority.v >= best_priority.v

\* the elif of the loop: equal score and a strictly higher numeric priority
TieBreak(score, highest_score, current_priority, best_priority) ==
    /\ score = highest_score
    /\ IsNumber(current_priority)
    /\ IsNumber(best_priority)
    /\ current_priority.v > best_priority.v

\* Skipped that also passes over an offer whose ctaTemplates is no list
SkippedWithoutTemplates(offer) == ~offer.isDict \/ offer.ctaTemplates.k # "list"

\* if not isinstance(offer, dict): continue
Skipped(offer) == ~offer.isDict

\* the loop over self.offers; best is an index into offers, 0 is None
RECURSIVE MatchLoop(_, _, _, _, _, _)
MatchLoop(offs, i, best, highest_score, body, ttl) ==
    IF i > Len(offs) THEN [best |-> best, highest_score |-> highest_score]
    ELSE IF Skipped(offs[i]) THEN MatchLoop(offs, i + 1, best, highest_score, body, ttl)
    ELSE LET score == _score_offer(offs[i], body, ttl)
             current_priority == GetPriority(offs[i])
             best_priority == IF best # 0 THEN GetPriority(offs[best]) ELSE Num(1)
         IN IF score > highest_score
            THEN MatchLoop(offs, i + 1, i, score, body, ttl)
            ELSE IF TieBreak(score, highest_score, current_priority, best_priority)
            THEN MatchLoop(offs, i + 1, i, highest_score, body, ttl)
            ELSE MatchLoop(offs, i + 1, best, highest_score, body, ttl)

\* valid_offers_for_fallback
FallbackOffers(offs) == {i \in 1..Len(offs) : offs[i].isDict}

\* what random.choice may return in the fallback (0 when it is not called)
FallbackChoices(offs) == IF FallbackOffers(offs) = {} THEN {0} ELSE FallbackOffers(offs)

\* IsRelevant with >= 0 for > 0
IsRelevantFromZero(best, highest_score) == best # 0 /\ highest_score >= 0

\* the relevance test before the fallback
IsRelevant(best, highest_score) == best # 0 /\ highest_score > 0

\* returns an index into offs, 0 for None; rnd is the outcome of random.choice
match_content_to_offer(offs, body, ttl, rnd) ==
    IF offs = <<>> THEN 0
    ELSE LET m == MatchLoop(offs, 1, 0, -1, body, ttl)
         IN IF IsRelevant(m.best, m.highest_score) THEN m.best
            ELSE IF FallbackOffers(offs) = {} THEN 0
            ELSE rnd

----------------------------------------------------------------------------
(* AffiliateOfferLibrary.generate_cta_html *)

UrlPlaceholder == <<"{","{","u","r","l","}","}">>
UtmSource == <<"w","e","a","l","t","h","a","u","t","o","m","a","t","i","o","n">>
UtmMedium == <<"b","l","o","g">>

\* ValidTemplates without the isinstance filter
ValidTemplatesUnfiltered(offer) == ListOrEmpty(offer.ctaTemplates)

\* valid_templates = [t for t in cta_templates if isinstance(t, str)]
ValidTemplates(offer) ==
    SelectSeq(ListOrEmpty(offer.ctaTemplates), LAMBDA e : e.k = "str")

\* what random.choice(valid_templates) may return, as an index (0 when it is not called)
TemplateChoices(offer) ==
    IF offer.isDict /\ ValidTemplates(offer) # <<>>
    THEN 1..Len(ValidTemplates(offer)) ELSE {0}

\* offer.get("url", "#"), replaced by "#" when it is no string
OfferUrl(offer) == IF offer.url.k = "str" THEN offer.url.v ELSE <<"#">>

\* utm_campaign = offer.get("id", "offer"), as the f-string renders it
UtmCampaign(offer) ==
    IF offer.id.k = "absent" THEN <<"o","f","f","e","r">> ELSE offer.id.v

\* Separator that always starts a new query string
SeparatorAlwaysQuery(offer_url) == <<"?">>

\* separator = "&" if "?" in offer_url else "?"
Separator(offer_url) == IF HasSub(offer_url, <<"?">>) THEN <<"&">> ELSE <<"?">>

TrackedUrl(offer) ==
    LET offer_url == OfferUrl(offer)
    IN offer_url \o Separator(offer_url)
       \o <<"u","t","m","_","s","o","u","r","c","e","=">> \o UtmSource
       \o <<"&","u","t","m","_","m","e","d","i","u","m","=">> \o UtmMedium
       \o <<"&","u","t","m","_","c","a","m","p","a","i","g","n","=">> \o UtmCampaign(offer)

\* the guard on cta_templates: falsy, or not a list
NoTemplates(offer) == offer.ctaTemplates.k # "list" \/ offer.ctaTemplates.v = <<>>

\* t is the outcome of random.choice: an index into valid_templates
generate_cta_html(offer, t) ==
    IF ~offer.isDict THEN <<>>
    ELSE IF NoTemplates(offer) THEN <<>>
    ELSE IF ValidTemplates(offer) = <<>> THEN <<>>
    ELSE Replace(ValidTemplates(offer)[t].v, UrlPlaceholder, TrackedUrl(offer))

----------------------------------------------------------------------------
(* AffiliateOfferLibrary.inject_cta_into_content *)

ClosingP == <<"<","/","p",">">>

\* the pattern </p> matches at s[i:], ignoring case
ClosingAt(s, i) ==
    /\ i + Len(ClosingP) - 1 <= Len(s)
    /\ \A j \in 1..Len(ClosingP) : LowerChar(s[i + j - 1]) = ClosingP[j]

\* re.split(r"(</p>\s*)", s, flags=re.IGNORECASE) from index i on: the text before
\* the leftmost match at or after i, the captured delimiter, and the rest split likewise
RECURSIVE SplitFrom(_, _)
SplitFrom(s, i) ==
    LET starts == {m \in i..Len(s) : ClosingAt(s, m)}
    IN IF starts = {} THEN <<SubSeq(s, i, Len(s))>>
       ELSE LET m == CHOOSE x \in starts : \A y \in starts : x <= y
                e == SkipSpaces(s, m + Len(ClosingP))
            IN <<SubSeq(s, i, m - 1), SubSeq(s, m, e - 1)>> \o SplitFrom(s, e)

SplitParagraphs(s) == SplitFrom(s, 1)

\* cta_wrapper
CtaWrapper(cta_html) ==
    <<"<","d","i","v"," ","c","l","a","s","s","=","\"","w","e","a","l","t","h","a","u",
      "t","o","m","a","t","i","o","n","-","c","t","a","\"",">">>
    \o cta_html \o <<"<","/","d","i","v",">">>

BlankLine == <<"\n","\n">>

\* AppendAtEnd that skips a wrapper the body already holds
AppendAtEndOnce(body, cta_wrapper) ==
    IF HasSub(body, cta_wrapper) THEN body ELSE body \o BlankLine \o cta_wrapper

AppendAtEnd(body, cta_wrapper) == body \o BlankLine \o cta_wrapper

\* NoCta with the test left out
NoCtaNever(cta_html) == FALSE

\* if not cta_html: return content
NoCta(cta_html) == cta_html = <<>>

\* EnoughParagraphs that asks for a third paragraph
EnoughParagraphsThree(paragraphs) == Len(paragraphs) > 5

\* the test that decides between middle insertion and the fallback to the end
EnoughParagraphs(paragraphs) == Len(paragraphs) > 3

\* MiddleIndex without the even/odd adjustment
MiddleIndexUnadjusted(paragraphs) == Len(paragraphs) \div 2

\* middle_index after the even/odd adjustment
MiddleIndex(paragraphs) ==
    LET middle_index == Len(paragraphs) \div 2
    IN IF middle_index % 2 = 0 THEN middle_index - 1 ELSE middle_index

InjectMiddle(body, cta_wrapper) ==
    LET paragraphs == SplitParagraphs(body)
    IN IF EnoughParagraphs(paragraphs)
       THEN Join(InsertAt(paragraphs, MiddleIndex(paragraphs) + 1, cta_wrapper))
       ELSE AppendAtEnd(body, cta_wrapper)

inject_cta_into_content(body, offer, position, t) ==
    IF ~offer.isDict THEN body
    ELSE LET cta_html == generate_cta_html(offer, t)
         IN IF NoCta(cta_html) THEN body
            ELSE LET cta_wrapper == CtaWrapper(cta_html)
                 IN IF position = "end" THEN AppendAtEnd(body, cta_wrapper)
                    ELSE IF position = "middle" THEN InjectMiddle(body, cta_wrapper)
                    ELSE IF position = "start" THEN cta_wrapper \o BlankLine \o body
                    ELSE AppendAtEnd(body, cta_wrapper)

----------------------------------------------------------------------------
(* run_wealthautomation_cycle, step 3: affiliate offer integration *)

\* "if selected_offer:" is the truth value of a dict: false for {} and for None
Truthy(offer) ==
    /\ offer.isDict
    /\ \/ offer.id.k # "absent"
       \/ offer.url.k # "absent"
       \/ offer.keywords.k # "absent"
       \/ offer.categories.k # "absent"
       \/ offer.priority.k # "absent"
       \/ offer.ctaTemplates.k # "absent"

\* the offer the cycle injects: offers[sel] when match returned a truthy record
UsesOffer(offs, sel) == sel # 0 /\ Truthy(offs[sel])

----------------------------------------------------------------------------
(* Inputs: the offers a file may hold, and the content units *)

O1 == Offer(Str(<<"o","1">>), Str(<<"x","?","i">>), List(<<Str(<<"a","i">>)>>), List(<<>>),
            Num(5), List(<<Str(<<"[","{","{","u","r","l","}","}","]">>)>>))
O2 == Offer(NoField, Str(<<"y">>), List(<<Str(<<"a","i">>), Str(<<"a","i">>), NonStr>>),
            List(<<Str(<<"B","i","z">>)>>), NoPriority,
            List(<<Str(<<"{","{","u","r","l","}","}","-","{","{","u","r","l","}","}">>),
                   NonStr, Str(<<"g","o">>)>>))
O3 == Offer(Str(<<"o","3">>), NonStr, NonList, List(<<NonStr, Str(<<"b","o","t">>)>>),
            Num(3), List(<<>>))
O4 == Offer(NoField, NoField, NoField, NoField, NoPriority, NoField)
O5 == Offer(NonStr, Str(<<"z","?">>), List(<<Str(<<"b","o","t">>)>>), NoField,
            NonNum, List(<<NonStr>>))
O6 == Offer(Str(<<"o","6">>), NoField, List(<<>>), List(<<>>), Num(-2),
            List(<<Str(<<>>), Str(<<"{","{","u","r","l","}","}">>)>>))
O7 == Offer(Str(<<"o","7">>), Str(<<"w">>), List(<<Str(<<"z","z">>)>>),
            List(<<Str(<<"A","I">>)>>), Num(6), NonList)

OfferPool == {O1, O2, O3, O4, O5, O6, O7}

Seqs(S, n) == UNION {[1..m -> S] : m \in 0..n}

\* the offers file: unreadable, or a list of entries, records and other JSON values
Sources ==
    {[kind |-> k, entries |-> <<>>] :
        k \in {"missing", "badjson", "unreadable", "notdict", "notlist"}}
    \cup {[kind |-> "ok", entries |-> es] : es \in Seqs(OfferPool \cup {NonDict}, MaxOffers)}

Paras == << <<"<","p",">","a","i","<","/","p",">">>,
            <<"<","p",">","B","o","t","<","/","p",">","\n">>,
            <<"<","P",">","b","i","z","<","/","P",">">>,
            <<"<","p",">","x","<","/","p",">"," ">> >>

Para(j) == Paras[((j - 1) % Len(Paras)) + 1]

\* a body of k paragraphs
Body(k) == Join([j \in 1..k |-> Para(j)])

Bodies == {Body(k) : k \in 0..MaxParas}
          \cup {<<"a","i"," ","b","o","t">>, Body(2) \o <<"z">>}

\* the bodies that scoring and matching are run on
ScoredBodies == {<<>>, <<"a","i"," ","b","o","t">>, Body(3)}

Titles == {<<"t">>, <<"A","I"," ","B","o","t">>}

Positions == {"end", "middle", "start", "top"}

NoCall == [op |-> "none", offer |-> NonDict, idx |-> 0, pos |-> "", tmpl |-> 0,
           rnd |-> 0, num |-> 0, out |-> <<>>]

----------------------------------------------------------------------------
(* The daily poster's CTA log and the publishing pipeline before any cycle *)

NoWp == [wp_user |-> FALSE, wp_app_password |-> FALSE, api_url |-> FALSE,
         jwt_token |-> FALSE]

NoCk == [api_key_v4 |-> FALSE]

NoResults == [post_id |-> 0, post_url |-> <<>>, wp_fallback_file |-> "None",
              wp_auth_method |-> "Unknown", email_blast_id |-> 0,
              ck_fallback_file |-> "None", email_sent |-> FALSE,
              final_email_content |-> <<>>]

NoPipeline ==
    /\ recent_ctas = <<>>
    /\ wp_integration = NoWp
    /\ ck_integration = NoCk
    /\ results = NoResults
    /\ events = <<>>

----------------------------------------------------------------------------
(* The library after construction, and calls of its methods *)

NoEnvironment ==
    /\ local_log = [kind |-> "missing", lines |-> <<>>]
    /\ sheets = [configured |-> FALSE, response |-> "request error", rows |-> <<>>]
    /\ runs = <<>>
    /\ make_webhook_url = FALSE

Init ==
    /\ source \in Sources
    /\ offers = _load_offers(source)
    /\ title \in Titles
    /\ content \in ScoredBodies
    /\ email = Body(1)
    /\ doc = content
    /\ injections = 0
    /\ pc = "offer"
    /\ selected_offer = 0
    /\ blog_content_with_cta = content
    /\ email_content_with_cta = email
    /\ recent_posts = <<>>
    /\ now = 0
    /\ call = NoCall
    /\ NoPipeline
    /\ NoEnvironment

\* library._score_offer(offers[i], content, title)
ScoreOffer ==
    /\ \E i \in 1..Len(offers) :
         call' = [NoCall EXCEPT !.op = "score", !.offer = offers[i], !.idx = i,
                                !.num = _score_offer(offers[i], content, title)]
    /\ UNCHANGED environmentVars
    /\ UNCHANGED <<source, offers, title, content, email, doc, injections, pc,
                   selected_offer, blog_content_with_cta, email_content_with_cta,
                   recent_posts, now>>
    /\ UNCHANGED pipelineVars

\* library.match_content_to_offer(content, title)
MatchContent ==
    /\ \E rnd \in FallbackChoices(offers) :
         call' = [NoCall EXCEPT !.op = "match", !.rnd = rnd,
                                !.num = match_content_to_offer(offers, content, title, rnd)]
    /\ UNCHANGED environmentVars
    /\ UNCHANGED <<source, offers, title, content, email, doc, injections, pc,
                   selected_offer, blog_content_with_cta, email_content_with_cta,
                   recent_posts, now>>
    /\ UNCHANGED pipelineVars

\* the offer arguments a caller may pass: a loaded offer, or a value that is no dict
OfferArgs == {offers[i] : i \in 1..Len(offers)} \cup {NonDict}

\* library.generate_cta_html(offer)
GenerateCta ==
    /\ \E offer \in OfferArgs : \E t \in TemplateChoices(offer) :
         call' = [NoCall EXCEPT !.op = "cta", !.offer = offer, !.tmpl = t,
                                !.out = generate_cta_html(offer, t)]
    /\ UNCHANGED environmentVars
    /\ UNCHANGED <<source, offers, title, content, email, doc, injections, pc,
                   selected_offer, blog_content_with_cta, email_content_with_cta,
                   recent_posts, now>>
    /\ UNCHANGED pipelineVars

Next == ScoreOffer \/ MatchContent \/ GenerateCta

Spec == Init /\ [][Next]_vars

----------------------------------------------------------------------------
(* One offer at a time: injection, repeated, and the cycle's offer step *)

InitInject ==
    /\ source \in {[kind |-> "ok", entries |-> es] : es \in Seqs(OfferPool, 1)}
    /\ offers = _load_offers(source)
    /\ title = <<"t">>
    /\ content \in Bodies
    /\ email = Body(2)
    /\ doc = content
    /\ injections = 0
    /\ pc = "offer"
    /\ selected_offer = 0
    /\ blog_content_with_cta = content
    /\ email_content_with_cta = email
    /\ recent_posts = <<>>
    /\ now = 0
    /\ call = NoCall
    /\ NoPipeline
    /\ NoEnvironment

\* doc = library.inject_cta_into_content(doc, offer, position); call.out keeps the old doc
Inject ==
    /\ injections < MaxInjections
    /\ \E offer \in OfferArgs : \E position \in Positions : \E t \in TemplateChoices(offer) :
         /\ doc' = inject_cta_into_content(doc, offer, position, t)
         /\ call' = [NoCall EXCEPT !.op = "inject", !.offer = offer, !.pos = position,
                                   !.tmpl = t, !.out = doc]
    /\ injections' = injections + 1
    /\ UNCHANGED environmentVars
    /\ UNCHANGED <<source, offers, title, content, email, pc,
                   selected_offer, blog_content_with_cta, email_content_with_cta,
                   recent_posts, now>>
    /\ UNCHANGED pipelineVars

\* step 3 of run_wealthautomation_cycle
OfferStage ==
    /\ pc = "offer"
    /\ \E rnd \in FallbackChoices(offers) :
         LET sel == match_content_to_offer(offers, content, title, rnd)
         IN /\ selected_offer' = sel
            /\ IF UsesOffer(offers, sel)
               THEN \E tb \in TemplateChoices(offers[sel]) :
                    \E te \in TemplateChoices(offers[sel]) :
                      /\ blog_content_with_cta' =
                           inject_cta_into_content(content, offers[sel], "middle", tb)
                      /\ email_content_with_cta' =
                           inject_cta_into_content(email, offers[sel], "end", te)
               ELSE /\ blog_content_with_cta' = content
                    /\ email_content_with_cta' = email
    /\ pc' = "publish"
    /\ UNCHANGED environmentVars
    /\ UNCHANGED <<source, offers, title, content, email, doc, injections,
                   recent_posts, now, call>>
    /\ UNCHANGED pipelineVars

NextInject == Inject \/ OfferStage

SpecInject == InitInject /\ [][NextInject]_vars

----------------------------------------------------------------------------
(* daily_poster: the rotating topics and the titles that run_daily_post logs *)

MaxRuns == 3
MaxDay == 8

DigitChars == <<"0","1","2","3","4","5","6","7","8","9">>

\* %m, %d, %H, %M: a number below 100 as two digits
TwoDigits(n) == <<DigitChars[(n \div 10) + 1], DigitChars[(n % 10) + 1]>>

\* datetime.datetime.now().strftime("%Y-%m-%d %H:%M"); the clock counts the days since
\* 2026-01-01 and the time of day is 09:30
FormatTimestamp(clock) ==
    <<"2","0","2","6","-","0","1","-">> \o TwoDigits(clock + 1) \o <<" ","0","9",":","3","0">>

\* blog_title = f"{topic} - Key Strategies ({timestamp})"
BlogTitle(topic, clock) ==
    topic \o <<" ","-"," ","K","e","y"," ","S","t","r","a","t","e","g","i","e","s"," ","(">> \o FormatTimestamp(clock) \o <<")">>

\* two rotating topics, shortened; like the ten of the source they are plain words and
\* none occurs in another
ROTATING_TOPICS == << <<"A","i"," ","T","o","o","l","s">>, <<"F","u","n","n","e","l","s">> >>

\* topics that a caller of run_daily_post provides
CallerTopics == { <<"A","i"," ","-"," ","K","e","y"," ","S","t","r","a","t","e","g","i","e","s"," ","N","o","w">> }

\* the topics of the model: the rotating topics and those of the callers
PostedTopics == {ROTATING_TOPICS[k] : k \in 1..Len(ROTATING_TOPICS)} \cup CallerTopics

\* the titles that run_daily_post can write to the log
PostedTitles == {BlogTitle(topic, clock) : topic \in PostedTopics, clock \in 0..MaxDay}

----------------------------------------------------------------------------
(* daily_poster: is_duplicate_blog_post *)

\* days_window of is_duplicate_blog_post
DaysWindow == 7

\* s[i], or "" past the end
At(s, i) == IF i >= 1 /\ i <= Len(s) THEN s[i] ELSE ""

DigitsAt(s, i, n) == \A j \in 0..(n - 1) : IsDigit(At(s, i + j))

\* str.strip()
Strip(s) ==
    LET kept == {i \in 1..Len(s) : ~IsSpace(s[i])}
    IN IF kept = {} THEN <<>>
       ELSE SubSeq(s, CHOOSE a \in kept : \A x \in kept : a <= x,
                      CHOOSE b \in kept : \A x \in kept : x <= b)

\* re.sub(r'[^a-zA-Z0-9\s]', '', s).lower().strip()
Normalize(s) ==
    Strip(Lower(SelectSeq(s, LAMBDA c : IsLower(c) \/ IsUpper(c) \/ IsDigit(c) \/ IsSpace(c))))

\* \(\d{4}-\d{2}-\d{2}\s+\d{2}:\d{2}\) matches at s[i:]: the index of its ")" , else 0
TimestampCoreEnd(s, i) ==
    LET j == SkipSpaces(s, i + 11)
    IN IF /\ At(s, i) = "("
          /\ DigitsAt(s, i + 1, 4) /\ At(s, i + 5) = "-"
          /\ DigitsAt(s, i + 6, 2) /\ At(s, i + 8) = "-"
          /\ DigitsAt(s, i + 9, 2) /\ IsSpace(At(s, i + 11))
          /\ DigitsAt(s, j, 2) /\ At(s, j + 2) = ":"
          /\ DigitsAt(s, j + 3, 2) /\ At(s, j + 5) = ")"
       THEN j + 5 ELSE 0

\* \s*\(\d{4}-\d{2}-\d{2}\s+\d{2}:\d{2}\)\s* matches at s[p:]: its last index, else 0
TimestampMatchEnd(s, p) ==
    LET e == TimestampCoreEnd(s, SkipSpaces(s, p))
    IN IF e = 0 THEN 0 ELSE SkipSpaces(s, e + 1) - 1

\* re.sub(<timestamp pattern>, '', s) from index i on
RECURSIVE StripTimestampsFrom(_, _)
StripTimestampsFrom(s, i) ==
    LET starts == {p \in i..Len(s) :
                     (s[p] = "(" \/ IsSpace(s[p])) /\ TimestampMatchEnd(s, p) # 0}
    IN IF starts = {} THEN SubSeq(s, i, Len(s))
       ELSE LET p == CHOOSE x \in starts : \A y \in starts : x <= y
            IN SubSeq(s, i, p - 1) \o StripTimestampsFrom(s, TimestampMatchEnd(s, p) + 1)

\* \s*-\s*Key\s+Strategies.* matches at s[p:]: its last index (the end of the line),
\* else 0
KeyStrategiesMatchEnd(s, p) ==
    LET d == SkipSpaces(s, p)
        k == SkipSpaces(s, d + 1)
        g == SkipSpaces(s, k + 3)
        breaks == {x \in (g + 10)..Len(s) : s[x] = "\n"}
    IN IF /\ At(s, d) = "-"
          /\ StartsAt(s, k, <<"K","e","y">>)
          /\ IsSpace(At(s, k + 3))
          /\ StartsAt(s, g, <<"S","t","r","a","t","e","g","i","e","s">>)
       THEN IF breaks = {} THEN Len(s)
            ELSE (CHOOSE x \in breaks : \A y \in breaks : x <= y) - 1
       ELSE 0

\* re.sub(r'\s*-\s*Key\s+Strategies.*', '', s) from index i on
RECURSIVE StripKeyStrategiesFrom(_, _)
StripKeyStrategiesFrom(s, i) ==
    LET starts == {p \in i..Len(s) :
                     (s[p] = "-" \/ IsSpace(s[p])) /\ KeyStrategiesMatchEnd(s, p) # 0}
    IN IF starts = {} THEN SubSeq(s, i, Len(s))
       ELSE LET p == CHOOSE x \in starts : \A y \in starts : x <= y
            IN SubSeq(s, i, p - 1)
               \o StripKeyStrategiesFrom(s, KeyStrategiesMatchEnd(s, p) + 1)

\* base_post_title: the title without timestamp and without "- Key Strategies..."
BasePostTitle(post_title) ==
    StripKeyStrategiesFrom(StripTimestampsFrom(post_title, 1), 1)

\* normalized_post_title of the titles that run_daily_post can write, computed once
NormalizedPostedTitles ==
    {[title |-> t, normalized |-> Normalize(BasePostTitle(t))] : t \in PostedTitles}

\* normalized_post_title
NormalizedPostTitle(post_title) ==
    IF post_title \in PostedTitles
    THEN (CHOOSE r \in NormalizedPostedTitles : r.title = post_title).normalized
    ELSE Normalize(BasePostTitle(post_title))

\* InWindow with > for >=
InWindowExclusive(post_timestamp, window_start) == post_timestamp > window_start

\* post_timestamp >= window_start
InWindow(post_timestamp, window_start) == post_timestamp >= window_start

\* the loop over recent_posts, from post i on
RECURSIVE DuplicateFrom(_, _, _, _)
DuplicateFrom(posts, i, normalized_topic, window_start) ==
    IF i > Len(posts) THEN FALSE
    ELSE IF /\ normalized_topic = NormalizedPostTitle(posts[i].title)
            /\ InWindow(posts[i].timestamp, window_start)
    THEN TRUE
    ELSE DuplicateFrom(posts, i + 1, normalized_topic, window_start)

\* clock is datetime.datetime.now()
is_duplicate_blog_post(topic, posts, days_window, clock) ==
    IF posts = <<>> THEN FALSE
    ELSE DuplicateFrom(posts, 1, Normalize(topic), clock - days_window)

----------------------------------------------------------------------------
(* The duplicate guard over a growing blog post log *)

\* titles that are logged
LoggedTitles ==
    { <<"A","I"," ","T","o","o","l","s"," ","-"," ","K","e","y"," ",
        "S","t","r","a","t","e","g","i","e","s"," ",
        "(","2","0","2","6","-","0","1","-","0","5"," ","0","9",":","3","0",")">>,
      <<" ","a","i",","," ","t","o","o","l","s","!">> }

\* topics that are asked about
Topics == { <<"A","i"," ","T","o","o","l","s">>, <<"A","i","T","o","o","l","s">> }

InitGuard ==
    /\ source = [kind |-> "missing", entries |-> <<>>]
    /\ offers = _load_offers(source)
    /\ title = <<"t">>
    /\ content = <<>>
    /\ email = <<>>
    /\ doc = content
    /\ injections = 0
    /\ pc = "offer"
    /\ selected_offer = 0
    /\ blog_content_with_cta = content
    /\ email_content_with_cta = email
    /\ recent_posts = <<>>
    /\ now = 0
    /\ call = NoCall
    /\ NoPipeline
    /\ NoEnvironment

\* a day passes
Tick ==
    /\ now < MaxNow
    /\ now' = now + 1
    /\ call' = NoCall
    /\ UNCHANGED environmentVars
    /\ UNCHANGED <<source, offers, title, content, email, doc, injections, pc,
                   selected_offer, blog_content_with_cta, email_content_with_cta,
                   recent_posts>>
    /\ UNCHANGED pipelineVars

\* log_blog_post(title): a record [now] title is appended to the log
LogBlogPost ==
    /\ Len(recent_posts) < MaxHistory
    /\ \E t \in LoggedTitles :
         recent_posts' = Append(recent_posts, [title |-> t, timestamp |-> now])
    /\ call' = NoCall
    /\ UNCHANGED environmentVars
    /\ UNCHANGED <<source, offers, title, content, email, doc, injections, pc,
                   selected_offer, blog_content_with_cta, email_content_with_cta,
                   now>>
    /\ UNCHANGED pipelineVars

\* is_duplicate_blog_post(topic, recent_posts); call.out is the topic, call.num 1 for True
CheckDuplicate ==
    /\ \E topic \in Topics :
         call' = [NoCall EXCEPT !.op = "dup", !.out = topic,
                    !.num = IF is_duplicate_blog_post(topic, recent_posts, DaysWindow, now)
                            THEN 1 ELSE 0]
    /\ UNCHANGED environmentVars
    /\ UNCHANGED <<source, offers, title, content, email, doc, injections, pc,
                   selected_offer, blog_content_with_cta, email_content_with_cta,
                   recent_posts, now>>
    /\ UNCHANGED pipelineVars

NextGuard == Tick \/ LogBlogPost \/ CheckDuplicate

SpecGuard == InitGuard /\ [][NextGuard]_vars

----------------------------------------------------------------------------
(* daily_poster: the blog post log, select_topic and run_daily_post *)

\* str.rstrip(), the right half of line.strip()
RStrip(s) ==
    LET kept == {i \in 1..Len(s) : ~IsSpace(s[i])}
    IN IF kept = {} THEN <<>>
       ELSE SubSeq(s, 1, CHOOSE b \in kept : \A x \in kept : x <= b)

\* the title that re.match(r'\[(.*?)\] (.*)', line) finds in the line written for t: the
\* line ends at the first line break of t and is stripped
ReadTitle(t) ==
    LET breaks == {i \in 1..Len(t) : t[i] = "\n"}
        line == IF breaks = {} THEN t
                ELSE SubSeq(t, 1, (CHOOSE b \in breaks : \A x \in breaks : b <= x) - 1)
    IN RStrip(line)

\* the records of the log file; readable = FALSE is a file that is missing or cannot be
\* read, with no Google Sheets fallback configured
load_recent_blog_posts(file, readable) ==
    IF ~readable THEN <<>>
    ELSE SelectSeq([i \in 1..Len(file) |->
                      [title |-> ReadTitle(file[i].title), timestamp |-> file[i].timestamp]],
                   LAMBDA post : post.title # <<>>)

\* what random.shuffle may leave: the orders of the candidates
ShuffleOrders ==
    {p \in [1..Len(ROTATING_TOPICS) -> 1..Len(ROTATING_TOPICS)] :
        \A i, j \in 1..Len(ROTATING_TOPICS) : p[i] = p[j] => i = j}

\* for topic in available_topics: is_duplicate_blog_post(topic, recent_posts), by index
Flagged(posts, clock) ==
    [k \in 1..Len(ROTATING_TOPICS) |->
        is_duplicate_blog_post(ROTATING_TOPICS[k], posts, DaysWindow, clock)]

\* FirstFresh without the duplicate check
FirstOfOrder(flagged, order) == order[1]

\* the first candidate of the shuffled list that is no duplicate (0 when all are)
FirstFresh(flagged, order) ==
    LET fresh == {k \in 1..Len(order) : ~flagged[order[k]]}
    IN IF fresh = {} THEN 0
       ELSE order[CHOOSE k \in fresh : \A x \in fresh : k <= x]

\* sorted(recent_posts, key=timestamp)[0]: the first of the records of least timestamp
OldestPost(posts) ==
    CHOOSE i \in 1..Len(posts) :
        \A j \in 1..Len(posts) :
            \/ posts[i].timestamp < posts[j].timestamp
            \/ posts[i].timestamp = posts[j].timestamp /\ i <= j

\* the first topic of ROTATING_TOPICS that occurs in the base title of the oldest record
\* (0 when none does, or when there is no record)
LeastRecentTopic(posts) ==
    IF posts = <<>> THEN 0
    ELSE LET base_title == Lower(BasePostTitle(posts[OldestPost(posts)].title))
             hits == {k \in 1..Len(ROTATING_TOPICS) :
                        HasSub(base_title, Lower(ROTATING_TOPICS[k]))}
         IN IF hits = {} THEN 0 ELSE CHOOSE k \in hits : \A x \in hits : k <= x

\* RandomTopic that gives no topic
RandomTopicNone(rnd) == 0

\* random.choice(ROTATING_TOPICS)
RandomTopic(rnd) == rnd

\* the branch select_topic returns from, as its log message tells
SelectBranch(flagged, least_recent, order) ==
    IF FirstFresh(flagged, order) # 0 THEN "fresh"
    ELSE IF least_recent # 0 THEN "least recent"
    ELSE "random"

\* select_topic(): flagged is Flagged(recent_posts, now) and least_recent is
\* LeastRecentTopic(recent_posts) for the recent_posts that load_recent_blog_posts
\* returned, order is the shuffle and rnd the random choice; the result is an index into
\* ROTATING_TOPICS
select_topic(flagged, least_recent, order, rnd) ==
    LET fresh == FirstFresh(flagged, order)
    IN IF fresh # 0 THEN fresh
       ELSE IF least_recent # 0 THEN least_recent
       ELSE RandomTopic(rnd)

\* generate_content(topic): four paragraphs, the topic in the first and the last
GeneratedBlog(topic) ==
    <<"<","p",">">> \o topic \o <<"<","/","p",">","\n","<","p",">","1","<","/","p",">","\n","<","p",">","2","<","/","p",">","\n","<","p",">">> \o topic \o <<"<","/","p",">">>

\* generate_content(topic): four paragraphs, the topic in the second, the title in the third
GeneratedEmail(topic, clock) ==
    <<"<","p",">","H","i","<","/","p",">","\n","<","p",">">> \o topic \o <<"<","/","p",">","\n","<","p",">">> \o BlogTitle(topic, clock) \o <<"<","/","p",">","\n","<","p",">","R","e","a","d","<","/","p",">">>

\* the offer that run_wealthautomation_cycle(topic) injects (0 when none)
CycleOffer(offs, topic, clock, rnd) ==
    LET sel == match_content_to_offer(offs, GeneratedBlog(topic), BlogTitle(topic, clock), rnd)
    IN IF UsesOffer(offs, sel) THEN sel ELSE 0

\* the topic argument: None, or a string
TopicArgs == {NoField} \cup {Str(t) : t \in CallerTopics}

\* the days that pass between two runs
Waits == {4}

InitDaily ==
    /\ source = [kind |-> "ok", entries |-> <<O6, O7>>]
    /\ offers = _load_offers(source)
    /\ title = <<"t">>
    /\ content = <<>>
    /\ email = <<>>
    /\ doc = content
    /\ injections = 0
    /\ pc = "offer"
    /\ selected_offer = 0
    /\ blog_content_with_cta = content
    /\ email_content_with_cta = email
    /\ recent_posts = <<>>
    /\ now = 0
    /\ call = NoCall
    /\ NoPipeline
    /\ NoEnvironment

\* time passes
Wait ==
    /\ \E d \in Waits : now + d <= MaxDay /\ now' = now + d
    /\ call' = NoCall
    /\ UNCHANGED environmentVars
    /\ UNCHANGED <<source, offers, title, content, email, doc, injections, pc,
                   selected_offer, blog_content_with_cta, email_content_with_cta,
                   recent_posts>>
    /\ UNCHANGED pipelineVars

\* what select_topic() may return for a log file: [topic, branch, readable], over the
\* outcomes of reading the file, of the shuffle and of the random choice
SelectOutcomes(file, clock) ==
    UNION { LET posts == load_recent_blog_posts(file, readable)
                flagged == Flagged(posts, clock)
                least_recent == LeastRecentTopic(posts)
            IN {[topic |-> select_topic(flagged, least_recent, order, rnd),
                 branch |-> SelectBranch(flagged, least_recent, order),
                 readable |-> readable] :
                    order \in ShuffleOrders, rnd \in 1..Len(ROTATING_TOPICS)}
          : readable \in BOOLEAN }

\* select_topic(); call.out is the topic returned, call.idx its index, call.pos the
\* branch taken and call.num is 1 when the log file could be read
SelectTopic ==
    /\ \E r \in SelectOutcomes(recent_posts, now) :
         call' = [NoCall EXCEPT !.op = "select", !.idx = r.topic,
                    !.out = IF r.topic = 0 THEN <<>> ELSE ROTATING_TOPICS[r.topic],
                    !.pos = r.branch,
                    !.num = IF r.readable THEN 1 ELSE 0]
    /\ UNCHANGED environmentVars
    /\ UNCHANGED <<source, offers, title, content, email, doc, injections, pc,
                   selected_offer, blog_content_with_cta, email_content_with_cta,
                   recent_posts, now>>
    /\ UNCHANGED pipelineVars

\* log_blog_post(blog_title) as run_daily_post calls it for a topic: the record
\* [now] "<topic> - Key Strategies (<now>)" is appended to the log
LogDailyPost ==
    /\ Len(recent_posts) < MaxRuns
    /\ \E topic \in PostedTopics :
         recent_posts' = Append(recent_posts, [title |-> BlogTitle(topic, now),
                                               timestamp |-> now])
    /\ call' = NoCall
    /\ UNCHANGED environmentVars
    /\ UNCHANGED <<source, offers, title, content, email, doc, injections, pc,
                   selected_offer, blog_content_with_cta, email_content_with_cta, now>>
    /\ UNCHANGED pipelineVars

NextSelect == Wait \/ LogDailyPost \/ SelectTopic

SpecSelect == InitDaily /\ [][NextSelect]_vars

\* the topics that lines 319-331 of run_daily_post may settle on: the caller's topic when
\* it is no duplicate in the log as loaded, else what select_topic returns
DailyTopics(file, clock) ==
    LET selected == {ROTATING_TOPICS[r.topic] : r \in SelectOutcomes(file, clock)}
    IN UNION { LET loaded == load_recent_blog_posts(file, readable)
               IN UNION { IF \/ arg.k = "absent"
                             \/ is_duplicate_blog_post(arg.v, loaded, DaysWindow, clock)
                          THEN selected
                          ELSE {arg.v}
                        : arg \in TopicArgs }
             : readable \in BOOLEAN }

\* what run_daily_post(topic) may do: the log is read, a topic is selected (the log is
\* read again) unless the caller's topic is no duplicate, and the cycle runs for it; the
\* result is [topic, used]: the topic of the cycle and the offer the cycle injected (0
\* when it injected none, or stopped before its offer stage, or the stage failed)
DailyRuns(file, clock, offs) ==
    UNION { {[topic |-> topic, used |-> CycleOffer(offs, topic, clock, pick)] :
                pick \in FallbackChoices(offs)}
            \cup {[topic |-> topic, used |-> 0]}
          : topic \in DailyTopics(file, clock) }

\* run_daily_post(topic); outcome "raised" is a cycle that raises and "unlogged" an append
\* to the log that fails.  call.out is the topic of the cycle, call.idx the offer the
\* cycle used and call.num is 1 when the title was logged.  log_cta is not called.
RunDailyPost ==
    /\ Len(recent_posts) < MaxRuns
    /\ \E run \in DailyRuns(recent_posts, now, offers) :
       \E outcome \in {"logged", "raised", "unlogged"} :
         /\ recent_posts' =
              IF outcome = "logged"
              THEN Append(recent_posts,
                          [title |-> BlogTitle(run.topic, now), timestamp |-> now])
              ELSE recent_posts
         /\ call' = [NoCall EXCEPT !.op = "daily", !.out = run.topic,
                       !.idx = IF outcome = "raised" THEN 0 ELSE run.used,
                       !.num = IF outcome = "logged" THEN 1 ELSE 0]
    /\ UNCHANGED environmentVars
    /\ UNCHANGED <<source, offers, title, content, email, doc, injections, pc,
                   selected_offer, blog_content_with_cta, email_content_with_cta,
                   now, recent_ctas, wp_integration, ck_integration, results, events>>

NextDaily == Wait \/ RunDailyPost

SpecDaily == InitDaily /\ [][NextDaily]_vars

----------------------------------------------------------------------------
(* JWTWordPressIntegration and ConvertKitV4Integration *)

\* what the token endpoint may answer to requests.post of _get_jwt_token: a JSON object
\* with a token, JSON without a token (an object or a list), a body that is no JSON, a
\* request error (network, timeout, HTTP status), or JSON that is no container (null, a
\* number), on which '"token" in token_data' raises TypeError
TokenResponses == {"token", "no token", "not json", "request error", "json scalar"}

\* what the posts endpoint may answer to requests.post of create_post: a JSON object with
\* id and link, a JSON object without them, a body that is no JSON, a request error, or
\* JSON that is no object (null, a list, a string), on which post_data.get raises
\* AttributeError
PostResponses == {"created", "no id", "not json", "request error", "not an object"}

\* what the broadcasts endpoint may answer to requests.post of create_and_send_broadcast
BroadcastResponses == {"sent", "no id", "not json", "request error", "not an object"}

\* the link of the created post
PostLink == <<"h","t","t","p","s",":","/","/","w","p","/","?","p","=","1">>

\* _save_fallback: the path of the file written, or None when the write fails
_save_fallback(written) == IF written THEN "file" ELSE "None"

\* JWTWordPressIntegration._get_jwt_token: [result, jwt_token, sent, raised]
_get_jwt_token(wp, response) ==
    IF ~wp.wp_user \/ ~wp.wp_app_password
    THEN [result |-> FALSE, jwt_token |-> wp.jwt_token, sent |-> FALSE, raised |-> FALSE]
    ELSE IF ~wp.api_url
    THEN [result |-> FALSE, jwt_token |-> wp.jwt_token, sent |-> FALSE, raised |-> FALSE]
    ELSE IF response = "token"
    THEN [result |-> TRUE, jwt_token |-> TRUE, sent |-> TRUE, raised |-> FALSE]
    ELSE IF response = "json scalar"
    THEN [result |-> FALSE, jwt_token |-> wp.jwt_token, sent |-> TRUE, raised |-> TRUE]
    ELSE [result |-> FALSE, jwt_token |-> wp.jwt_token, sent |-> TRUE, raised |-> FALSE]

\* what a call of _get_jwt_token does to the outside world
TokenEvents(token) == IF token.sent THEN <<"token request">> ELSE <<>>

\* _get_auth_header that asks for a new token although it holds one
_get_auth_header_always_refresh(wp, token_response) ==
    LET token == _get_jwt_token(wp, token_response)
    IN [headers |-> token.result \/ wp.jwt_token, jwt_token |-> token.jwt_token,
        events |-> TokenEvents(token), raised |-> token.raised]

\* JWTWordPressIntegration._get_auth_header: [headers, jwt_token, events, raised]
_get_auth_header(wp, token_response) ==
    IF wp.jwt_token
    THEN [headers |-> TRUE, jwt_token |-> TRUE, events |-> <<>>, raised |-> FALSE]
    ELSE LET token == _get_jwt_token(wp, token_response)
         IN [headers |-> token.result, jwt_token |-> token.jwt_token,
             events |-> TokenEvents(token), raised |-> token.raised]

\* PostResult with the link in every result
PostResultWithLink(post_id, post_url, fallback_file, auth_method, raised, evs, jwt_token) ==
    [post_id |-> post_id, post_url |-> PostLink, fallback_file |-> fallback_file,
     auth_method |-> auth_method, raised |-> raised, events |-> evs,
     jwt_token |-> jwt_token]

\* a result of create_post: the four values returned, or raised = TRUE; events is what
\* the call did to the outside world and jwt_token the token the integration holds after it
PostResult(post_id, post_url, fallback_file, auth_method, raised, evs, jwt_token) ==
    [post_id |-> post_id, post_url |-> post_url, fallback_file |-> fallback_file,
     auth_method |-> auth_method, raised |-> raised, events |-> evs,
     jwt_token |-> jwt_token]

\* JWTWordPressIntegration.create_post(title, content)
create_post(wp, token_response, response, written) ==
    LET auth == _get_auth_header(wp, token_response)
    IN IF auth.raised
       THEN PostResult(0, <<>>, "None", "Unknown", TRUE, auth.events, auth.jwt_token)
       ELSE IF ~auth.headers
       THEN PostResult(0, <<>>, _save_fallback(written), "JWT Auth Failure", FALSE,
                       auth.events \o <<"wp fallback write">>, auth.jwt_token)
       ELSE IF response = "created"
       THEN PostResult(1, PostLink, "None", "JWT", FALSE,
                       auth.events \o <<"post request">>, auth.jwt_token)
       ELSE IF response = "not an object"
       THEN PostResult(0, <<>>, "None", "Unknown", TRUE,
                       auth.events \o <<"post request">>, auth.jwt_token)
       ELSE PostResult(0, <<>>, _save_fallback(written), "JWT", FALSE,
                       auth.events \o <<"post request", "wp fallback write">>,
                       auth.jwt_token)

\* ConvertKitV4Integration._get_headers: are there headers
_get_headers(ck) == ck.api_key_v4

\* a result of create_and_send_broadcast: the three values returned, or raised = TRUE
BroadcastResult(broadcast_id, fallback_file, sent, raised, evs) ==
    [broadcast_id |-> broadcast_id, fallback_file |-> fallback_file, sent |-> sent,
     raised |-> raised, events |-> evs]

\* ConvertKitV4Integration.create_and_send_broadcast(subject, content)
create_and_send_broadcast(ck, response, written) ==
    IF ~_get_headers(ck)
    THEN BroadcastResult(0, _save_fallback(written), FALSE, FALSE, <<"ck fallback write">>)
    ELSE IF response = "sent"
    THEN BroadcastResult(1, "None", TRUE, FALSE, <<"broadcast request">>)
    ELSE IF response = "not an object"
    THEN BroadcastResult(0, "None", FALSE, TRUE, <<"broadcast request">>)
    ELSE BroadcastResult(0, _save_fallback(written), FALSE, FALSE,
                         <<"broadcast request", "ck fallback write">>)

----------------------------------------------------------------------------
(* run_wealthautomation_cycle, step by step *)

\* the offers files of the cycles
CycleStores == {<<>>, <<O1>>, <<O7>>}

\* the topics of the cycles
CycleTopics == {ROTATING_TOPICS[1]}

\* final_email_content when the post was created
WithPostLink(email_content, post_url) ==
    email_content \o <<"<","p",">","R","e","a","d"," ","t","h","e"," ","f","u","l","l"," ","p","o","s","t"," ","h","e","r","e",":"," ","<","a"," ","h","r","e","f","=","\"">> \o post_url \o <<"\"",">">>
                  \o post_url \o <<"<","/","a",">","<","/","p",">">>

InitCycle ==
    /\ source \in {[kind |-> "ok", entries |-> es] : es \in CycleStores}
    /\ offers = <<>>
    /\ title = <<>>
    /\ content = <<>>
    /\ email = <<>>
    /\ doc = <<>>
    /\ injections = 0
    /\ pc = "content"
    /\ selected_offer = 0
    /\ blog_content_with_cta = <<>>
    /\ email_content_with_cta = <<>>
    /\ recent_posts = <<>>
    /\ now = 0
    /\ call = NoCall
    /\ NoPipeline
    /\ local_log = [kind |-> "missing", lines |-> <<>>]
    /\ sheets = [configured |-> FALSE, response |-> "request error", rows |-> <<>>]
    /\ runs = <<>>
    /\ make_webhook_url \in BOOLEAN

\* step 1: generate_content(topic) returns the four texts, or raises and the cycle returns
GenerateContent ==
    /\ pc = "content"
    /\ \/ \E topic \in CycleTopics :
            /\ title' = BlogTitle(topic, now)
            /\ content' = GeneratedBlog(topic)
            /\ email' = GeneratedEmail(topic, now)
            /\ events' = Append(events, "generate_content")
            /\ pc' = "init"
       \/ /\ events' = Append(events, "generate_content raised")
          /\ pc' = "aborted"
          /\ UNCHANGED <<title, content, email>>
    /\ UNCHANGED environmentVars
    /\ UNCHANGED <<source, offers, doc, injections, selected_offer, blog_content_with_cta,
                   email_content_with_cta, recent_posts, now, call, recent_ctas,
                   wp_integration, ck_integration, results>>

\* step 2: the three integrations are constructed from the environment; the constructor
\* of JWTWordPressIntegration asks for a token, and the cycle returns when that raises
InitIntegrations ==
    /\ pc = "init"
    /\ \E user \in BOOLEAN : \E password \in BOOLEAN : \E url \in BOOLEAN :
       \E response \in TokenResponses :
         LET wp == [wp_user |-> user, wp_app_password |-> password, api_url |-> url,
                    jwt_token |-> FALSE]
             token == _get_jwt_token(wp, response)
         IN /\ events' = events \o TokenEvents(token)
            /\ IF token.raised
               THEN /\ pc' = "aborted"
                    /\ UNCHANGED <<wp_integration, ck_integration, offers>>
               ELSE /\ wp_integration' = [wp EXCEPT !.jwt_token = token.jwt_token]
                    /\ \E key \in BOOLEAN : ck_integration' = [api_key_v4 |-> key]
                    /\ offers' = _load_offers(source)
                    /\ pc' = "offer"
    /\ UNCHANGED environmentVars
    /\ UNCHANGED <<source, title, content, email, doc, injections, selected_offer,
                   blog_content_with_cta, email_content_with_cta, recent_posts, now, call,
                   recent_ctas, results>>

\* step 3 when match_content_to_offer (line 127) or the injection into the blog content
\* (line 132) raises, as when a WARNING line that names the offer cannot be printed: the
\* exception is caught and the contents stay as generated
OfferStageRaises ==
    /\ pc = "offer"
    /\ \/ selected_offer' = 0
       \/ \E rnd \in FallbackChoices(offers) :
            LET sel == match_content_to_offer(offers, content, title, rnd)
            IN /\ UsesOffer(offers, sel)
               /\ selected_offer' = sel
    /\ blog_content_with_cta' = content
    /\ email_content_with_cta' = email
    /\ events' = Append(events, "offer stage failed")
    /\ pc' = "publish"
    /\ UNCHANGED environmentVars
    /\ UNCHANGED <<source, offers, title, content, email, doc, injections,
                   recent_posts, now, call, recent_ctas, wp_integration, ck_integration,
                   results>>

\* step 4: wp_integration.create_post(blog_title, blog_content_with_cta); when it raises,
\* the cycle saves an emergency fallback
Publish ==
    /\ pc = "publish"
    /\ \E token_response \in TokenResponses : \E response \in PostResponses :
       \E written \in BOOLEAN :
         LET post == create_post(wp_integration, token_response, response, written)
         IN /\ wp_integration' = [wp_integration EXCEPT !.jwt_token = post.jwt_token]
            /\ IF post.raised
               THEN \E saved \in BOOLEAN :
                      /\ results' = [results EXCEPT
                                       !.wp_fallback_file = _save_fallback(saved)]
                      /\ events' = events \o <<"create_post">> \o post.events
                                     \o <<"create_post raised",
                                          "wp emergency fallback write">>
               ELSE /\ results' = [results EXCEPT
                                     !.post_id = post.post_id,
                                     !.post_url = post.post_url,
                                     !.wp_fallback_file = post.fallback_file,
                                     !.wp_auth_method = post.auth_method]
                    /\ events' = events \o <<"create_post">> \o post.events
                                   \o <<"create_post returned">>
    /\ pc' = "email"
    /\ UNCHANGED environmentVars
    /\ UNCHANGED <<source, offers, title, content, email, doc, injections, selected_offer,
                   blog_content_with_cta, email_content_with_cta, recent_posts, now, call,
                   recent_ctas, ck_integration>>

\* step 5: ck_integration.create_and_send_broadcast(email_subject, final_email_content)
SendEmail ==
    /\ pc = "email"
    /\ \E response \in BroadcastResponses : \E written \in BOOLEAN :
         LET final_email_content ==
                 IF results.post_url # <<>>
                 THEN WithPostLink(email_content_with_cta, results.post_url)
                 ELSE email_content_with_cta
             broadcast == create_and_send_broadcast(ck_integration, response, written)
         IN IF broadcast.raised
            THEN \E saved \in BOOLEAN :
                   /\ results' = [results EXCEPT
                                    !.final_email_content = final_email_content,
                                    !.ck_fallback_file = _save_fallback(saved)]
                   /\ events' = events \o <<"create_and_send_broadcast">>
                                  \o broadcast.events
                                  \o <<"broadcast raised", "ck emergency fallback write">>
            ELSE /\ results' = [results EXCEPT
                                  !.final_email_content = final_email_content,
                                  !.email_blast_id = broadcast.broadcast_id,
                                  !.ck_fallback_file = broadcast.fallback_file,
                                  !.email_sent = broadcast.sent]
                 /\ events' = events \o <<"create_and_send_broadcast">>
                                \o broadcast.events \o <<"broadcast returned">>
    /\ pc' = "webhook"
    /\ UNCHANGED environmentVars
    /\ UNCHANGED <<source, offers, title, content, email, doc, injections, selected_offer,
                   blog_content_with_cta, email_content_with_cta, recent_posts, now, call,
                   recent_ctas, wp_integration, ck_integration>>

\* WebhookDue without the test of MAKE_WEBHOOK_URL
WebhookDueUnconfigured(res, configured) == res.post_id # 0 /\ res.post_url # <<>>

\* if post_id and post_url and MAKE_WEBHOOK_URL
WebhookDue(res, configured) == res.post_id # 0 /\ res.post_url # <<>> /\ configured

\* step 6 and the end of the cycle: the Make.com webhook is called when the post was
\* created and MAKE_WEBHOOK_URL is set; a failed request is caught and logged
Webhook ==
    /\ pc = "webhook"
    /\ IF WebhookDue(results, make_webhook_url)
       THEN \E failed \in BOOLEAN :
              events' = events \o <<"webhook request">>
                          \o (IF failed THEN <<"webhook failed">> ELSE <<>>)
                          \o <<"finished">>
       ELSE events' = Append(events, "finished")
    /\ pc' = "finished"
    /\ UNCHANGED environmentVars
    /\ UNCHANGED <<source, offers, title, content, email, doc, injections, selected_offer,
                   blog_content_with_cta, email_content_with_cta, recent_posts, now, call,
                   recent_ctas, wp_integration, ck_integration, results>>

NextCycle ==
    \/ GenerateContent
    \/ InitIntegrations
    \/ OfferStage
    \/ OfferStageRaises
    \/ Publish
    \/ SendEmail
    \/ Webhook

SpecCycle == InitCycle /\ [][NextCycle]_vars

\* the cycle is one synchronous call that never waits: no stage lasts forever.  The
\* offer stage ends with OfferStage or with OfferStageRaises, and OfferStageRaises can be
\* taken whenever OfferStage can.
SpecCycleRuns ==
    /\ SpecCycle
    /\ WF_vars(GenerateContent)
    /\ WF_vars(InitIntegrations)
    /\ WF_vars(OfferStageRaises)
    /\ WF_vars(Publish)
    /\ WF_vars(SendEmail)
    /\ WF_vars(Webhook)

----------------------------------------------------------------------------
(* daily_poster: the history loaders and their Google Sheets fallback *)

MaxLines == 2
MaxRows == 2

\* a line of a local log as the loader parses it: a record, a blank line, a line that
\* re.match rejects, or a line whose timestamp strptime rejects
LogLine(k) == [k |-> k, title |-> BlogTitle(ROTATING_TOPICS[1], 0), timestamp |-> 0]

LogLines == {LogLine(k) : k \in {"record", "blank", "no match", "bad timestamp"}}

\* a row of the sheet: the header, a record, a row of fewer than two cells, or a row
\* whose timestamp strptime rejects
SheetRow(k) == [k |-> k, title |-> BlogTitle(ROTATING_TOPICS[2], 0), timestamp |-> 0]

SheetRows == {SheetRow(k) : k \in {"record", "short", "bad timestamp"}}

\* the records appended while the lines of the local log are read
LineRecords(lines) ==
    LET kept == SelectSeq(lines, LAMBDA line : line.k = "record")
    IN SubSeq([i \in 1..Len(kept) |->
                 [title |-> kept[i].title, timestamp |-> kept[i].timestamp]],
              1, Len(kept))

\* the records appended from data["values"]: nothing unless there is more than the
\* header row, which is skipped
RowRecords(rows) ==
    IF Len(rows) > 1
    THEN LineRecords(SubSeq(rows, 2, Len(rows)))
    ELSE <<>>

\* PrimaryLoaded that holds only when the read yielded a record
PrimaryLoadedNonEmpty(log) == log.kind = "read" /\ LineRecords(log.lines) # <<>>

\* the local file exists and was read to its end without an exception, so the loader
\* returns what it parsed
PrimaryLoaded(log) == log.kind = "read"

\* load_recent_blog_posts() and load_recent_ctas(), which differ in file, sheet and record
\* key only: [records, consulted], consulted = TRUE when the request to Google Sheets was
\* sent.  A file whose reading raised leaves the records parsed before the exception in
\* the list the fallback appends to.
LoadHistory(log, sh) ==
    IF PrimaryLoaded(log)
    THEN [records |-> LineRecords(log.lines), consulted |-> FALSE]
    ELSE IF ~sh.configured
    THEN [records |-> <<>>, consulted |-> FALSE]
    ELSE IF sh.response = "values"
    THEN [records |-> LineRecords(log.lines) \o RowRecords(sh.rows), consulted |-> TRUE]
    ELSE IF sh.response = "no values"
    THEN [records |-> LineRecords(log.lines), consulted |-> TRUE]
    ELSE [records |-> <<>>, consulted |-> TRUE]

load_recent_ctas(log, sh) == LoadHistory(log, sh)

\* the local log: missing, read to its end, or read until an exception
LocalLogs ==
    {[kind |-> "missing", lines |-> <<>>]}
    \cup {[kind |-> kind, lines |-> lines] :
            kind \in {"read", "read error"}, lines \in Seqs(LogLines, MaxLines)}

\* the fallback: not configured, or the response to the request
SheetStates ==
    {[configured |-> FALSE, response |-> "request error", rows |-> <<>>]}
    \cup {[configured |-> TRUE, response |-> response, rows |-> <<>>] :
            response \in {"request error", "no values"}}
    \cup {[configured |-> TRUE, response |-> "values", rows |-> rows] :
            rows \in {<<>>} \cup {<<SheetRow("header")>> \o rest :
                                    rest \in Seqs(SheetRows, MaxRows - 1)}}

InitLoad ==
    /\ source = [kind |-> "missing", entries |-> <<>>]
    /\ offers = _load_offers(source)
    /\ title = <<"t">>
    /\ content = <<>>
    /\ email = <<>>
    /\ doc = content
    /\ injections = 0
    /\ pc = "offer"
    /\ selected_offer = 0
    /\ blog_content_with_cta = content
    /\ email_content_with_cta = email
    /\ recent_posts = <<>>
    /\ now = 0
    /\ call = NoCall
    /\ NoPipeline
    /\ local_log \in LocalLogs
    /\ sheets \in SheetStates
    /\ runs = <<>>
    /\ make_webhook_url = FALSE

\* load_recent_blog_posts(); call.out is the list returned and call.num is 1 when the
\* request to Google Sheets was sent
LoadRecentBlogPosts ==
    /\ call' = [NoCall EXCEPT !.op = "load posts",
                  !.out = LoadHistory(local_log, sheets).records,
                  !.num = IF LoadHistory(local_log, sheets).consulted THEN 1 ELSE 0]
    /\ UNCHANGED environmentVars
    /\ UNCHANGED <<source, offers, title, content, email, doc, injections, pc,
                   selected_offer, blog_content_with_cta, email_content_with_cta,
                   recent_posts, now>>
    /\ UNCHANGED pipelineVars

\* load_recent_ctas()
LoadRecentCtas ==
    /\ call' = [NoCall EXCEPT !.op = "load ctas",
                  !.out = load_recent_ctas(local_log, sheets).records,
                  !.num = IF load_recent_ctas(local_log, sheets).consulted THEN 1 ELSE 0]
    /\ UNCHANGED environmentVars
    /\ UNCHANGED <<source, offers, title, content, email, doc, injections, pc,
                   selected_offer, blog_content_with_cta, email_content_with_cta,
                   recent_posts, now>>
    /\ UNCHANGED pipelineVars

NextLoad == LoadRecentBlogPosts \/ LoadRecentCtas

SpecLoad == InitLoad /\ [][NextLoad]_vars

----------------------------------------------------------------------------
(* daily_poster: is_duplicate_cta and log_cta *)

CtaDaysWindow == 3

\* NormalizeOffer with the normalization of is_duplicate_blog_post, which also drops
\* punctuation
NormalizeOfferPunctuation(name) == Normalize(name)

\* offer_name.lower().strip()
NormalizeOffer(name) == Strip(Lower(name))

\* the loop over recent_ctas, from record i on
RECURSIVE CtaDuplicateFrom(_, _, _, _)
CtaDuplicateFrom(ctas, i, normalized_offer, window_start) ==
    IF i > Len(ctas) THEN FALSE
    ELSE IF /\ normalized_offer = NormalizeOffer(ctas[i].offer_name)
            /\ ctas[i].timestamp >= window_start
    THEN TRUE
    ELSE CtaDuplicateFrom(ctas, i + 1, normalized_offer, window_start)

\* clock is datetime.datetime.now()
is_duplicate_cta(offer_name, ctas, days_window, clock) ==
    IF ctas = <<>> THEN FALSE
    ELSE CtaDuplicateFrom(ctas, 1, NormalizeOffer(offer_name), clock - days_window)

\* offer names that are logged
LoggedOffers == { <<" ","a","i"," ","K","I","T">>, <<"A","i","-","K","i","t">> }

\* offer names that are asked about
AskedOffers == { <<"A","i"," ","k","i","t"," ">>, <<"a","i","-","k","i","t">>,
                 <<"A","i","K","i","t">> }

\* log_cta(offer_name): a record [now] offer_name is appended to the CTA log
LogCta ==
    /\ Len(recent_ctas) < MaxHistory
    /\ \E name \in LoggedOffers :
         recent_ctas' = Append(recent_ctas, [offer_name |-> name, timestamp |-> now])
    /\ call' = NoCall
    /\ UNCHANGED environmentVars
    /\ UNCHANGED <<source, offers, title, content, email, doc, injections, pc,
                   selected_offer, blog_content_with_cta, email_content_with_cta,
                   recent_posts, now, wp_integration, ck_integration, results, events>>

\* is_duplicate_cta(offer_name, recent_ctas); call.out is the name, call.num 1 for True
CheckDuplicateCta ==
    /\ \E name \in AskedOffers :
         call' = [NoCall EXCEPT !.op = "cta dup", !.out = name,
                    !.num = IF is_duplicate_cta(name, recent_ctas, CtaDaysWindow, now)
                            THEN 1 ELSE 0]
    /\ UNCHANGED environmentVars
    /\ UNCHANGED <<source, offers, title, content, email, doc, injections, pc,
                   selected_offer, blog_content_with_cta, email_content_with_cta,
                   recent_posts, now>>
    /\ UNCHANGED pipelineVars

NextCta == Tick \/ LogCta \/ CheckDuplicateCta

SpecCta == InitGuard /\ [][NextCta]_vars

----------------------------------------------------------------------------
(* run_daily_post, step by step, for callers that overlap: the /run endpoint serves *)
(* each request on its own, and the scheduled job is another process                *)

\* the callers
Callers == {1, 2}

\* how run_wealthautomation_cycle(topic) may end: at its last line with the post created,
\* at its last line with the post saved to a fallback file only, at one of its early
\* returns (content generation or set-up failed), or with an exception
CycleOutcomes == {"finished", "saved to fallback", "stopped early", "raised"}

\* an invocation that has not started; seen is the number of records that the log held
\* when line 319 read it, stamp the clock of line 333
IdleRun == [pc |-> "idle", topic |-> <<>>, seen |-> 0, stamp |-> 0, cycle |-> "none",
            logged |-> "none", returned |-> "none"]

\* the log after lines 319-333 of an invocation that settled on the topic: as it was
\* found, with a record that reserves the topic
LogReservedAtCheck(log, topic, clock) ==
    Append(log, [title |-> BlogTitle(topic, clock), timestamp |-> clock])

\* the log after lines 319-333 of an invocation: as it was found, nothing is written and
\* nothing is locked
LogAfterCheck(log, topic, clock) == log

InitRuns ==
    /\ source = [kind |-> "missing", entries |-> <<>>]
    /\ offers = _load_offers(source)
    /\ title = <<"t">>
    /\ content = <<>>
    /\ email = <<>>
    /\ doc = content
    /\ injections = 0
    /\ pc = "offer"
    /\ selected_offer = 0
    /\ blog_content_with_cta = content
    /\ email_content_with_cta = email
    /\ recent_posts = <<>>
    /\ now = 0
    /\ call = NoCall
    /\ NoPipeline
    /\ local_log = [kind |-> "missing", lines |-> <<>>]
    /\ sheets = [configured |-> FALSE, response |-> "request error", rows |-> <<>>]
    /\ runs = [p \in Callers |-> IdleRun]
    /\ make_webhook_url = FALSE

\* time passes while invocations are in progress
WaitRuns ==
    /\ \E d \in Waits : now + d <= MaxDay /\ now' = now + d
    /\ UNCHANGED <<source, offers, title, content, email, doc, injections, pc,
                   selected_offer, blog_content_with_cta, email_content_with_cta,
                   recent_posts, call, local_log, sheets, runs, make_webhook_url>>
    /\ UNCHANGED pipelineVars

\* lines 319-334 of the invocation of caller p: the log is loaded, the topic is checked
\* or selected and the title is stamped
CheckTopic(p) ==
    /\ runs[p].pc = "idle"
    /\ \E topic \in DailyTopics(recent_posts, now) :
         /\ runs' = [runs EXCEPT ![p] = [IdleRun EXCEPT !.pc = "checked",
                                                        !.topic = topic,
                                                        !.seen = Len(recent_posts),
                                                        !.stamp = now]]
         /\ recent_posts' = LogAfterCheck(recent_posts, topic, now)
    /\ UNCHANGED <<source, offers, title, content, email, doc, injections, pc,
                   selected_offer, blog_content_with_cta, email_content_with_cta,
                   now, call, local_log, sheets, make_webhook_url>>
    /\ UNCHANGED pipelineVars

\* AfterCycle that takes a cycle that stopped early for one that raised
AfterCycleStoppedIsFailure(run, outcome) ==
    IF outcome \in {"raised", "stopped early"}
    THEN [run EXCEPT !.pc = "done", !.cycle = outcome, !.returned = "False"]
    ELSE [run EXCEPT !.pc = "cycled", !.cycle = outcome]

\* the invocation after line 338: only an exception reaches lines 351-355, which return
\* False; the cycle returns nothing, so every cycle that returns goes on to line 341
AfterCycle(run, outcome) ==
    IF outcome = "raised"
    THEN [run EXCEPT !.pc = "done", !.cycle = outcome, !.returned = "False"]
    ELSE [run EXCEPT !.pc = "cycled", !.cycle = outcome]

\* line 338: the cycle runs for the topic
RunCycle(p) ==
    /\ runs[p].pc = "checked"
    /\ \E outcome \in CycleOutcomes :
         runs' = [runs EXCEPT ![p] = AfterCycle(@, outcome)]
    /\ UNCHANGED <<source, offers, title, content, email, doc, injections, pc,
                   selected_offer, blog_content_with_cta, email_content_with_cta,
                   recent_posts, now, call, local_log, sheets, make_webhook_url>>
    /\ UNCHANGED pipelineVars

\* lines 341-350: log_blog_post(blog_title) appends the record, or fails to and swallows
\* the error, and the invocation returns True
LogPost(p) ==
    /\ runs[p].pc = "cycled"
    /\ \E written \in BOOLEAN :
         /\ recent_posts' =
              IF written
              THEN Append(recent_posts,
                          [title |-> BlogTitle(runs[p].topic, runs[p].stamp),
                           timestamp |-> now])
              ELSE recent_posts
         /\ runs' = [runs EXCEPT ![p] =
                       [@ EXCEPT !.pc = "done", !.returned = "True",
                                 !.logged = IF written THEN "written" ELSE "failed"]]
    /\ UNCHANGED <<source, offers, title, content, email, doc, injections, pc,
                   selected_offer, blog_content_with_cta, email_content_with_cta,
                   now, call, local_log, sheets, make_webhook_url>>
    /\ UNCHANGED pipelineVars

NextRuns ==
    \/ WaitRuns
    \/ \E p \in Callers : CheckTopic(p)
    \/ \E p \in Callers : RunCycle(p)
    \/ \E p \in Callers : LogPost(p)

SpecRuns == InitRuns /\ [][NextRuns]_vars

----------------------------------------------------------------------------
(* Properties of _score_offer *)

\* the text occurs in hay, ignoring case
Occurs(text, hay) == HasSub(Lower(hay), Lower(text))

\* the indices of the string entries of a list field that occur in hay
Occurring(field, hay) ==
    {i \in 1..Len(ListOrEmpty(field)) :
        ListOrEmpty(field)[i].k = "str" /\ Occurs(ListOrEmpty(field)[i].v, hay)}

\* the distinct strings among those entries
DistinctOccurring(field, hay) == {ListOrEmpty(field)[i].v : i \in Occurring(field, hay)}

\* the numeric priority, 1 when absent, nothing when it is no number
PriorityTerm(offer) ==
    IF offer.priority.k = "num" THEN offer.priority.v
    ELSE IF offer.priority.k = "absent" THEN 1 ELSE 0

\* C1 as stated: the score is 2 x distinct keywords in the body + 5 x distinct keywords
\* in the title + 1 x categories in the body + 3 x categories in the title + priority;
\* a keyword listed twice is counted once.
C1_DistinctKeywords ==
    call.op = "score" =>
        call.num = 2 * Cardinality(DistinctOccurring(call.offer.keywords, content))
                 + 5 * Cardinality(DistinctOccurring(call.offer.keywords, title))
                 + 1 * Cardinality(Occurring(call.offer.categories, content))
                 + 3 * Cardinality(Occurring(call.offer.categories, title))
                 + PriorityTerm(call.offer)

\* C1 amended: the score is 2 x (string keyword entries occurring in the body) + 5 x
\* (string keyword entries occurring in the title) + 1 x (string category entries in the
\* body) + 3 x (string category entries in the title) + the numeric priority (1 when
\* absent); every list entry counts, so a keyword listed twice is counted twice.
C1_ScorePerEntry ==
    call.op = "score" =>
        call.num = 2 * Cardinality(Occurring(call.offer.keywords, content))
                 + 5 * Cardinality(Occurring(call.offer.keywords, title))
                 + 1 * Cardinality(Occurring(call.offer.categories, content))
                 + 3 * Cardinality(Occurring(call.offer.categories, title))
                 + PriorityTerm(call.offer)

\* a scored offer lists a keyword twice, the keyword occurs in the body, and a
\* non-string keyword is listed with it
C1_Witness ==
    /\ call.op = "score"
    /\ \E i, j \in Occurring(call.offer.keywords, content) :
         i # j /\ call.offer.keywords.v[i] = call.offer.keywords.v[j]
    /\ \E i \in 1..Len(call.offer.keywords.v) : call.offer.keywords.v[i].k # "str"
    /\ Occurring(call.offer.categories, content) # {}

----------------------------------------------------------------------------
(* Properties of match_content_to_offer *)

Score(i) == _score_offer(offers[i], content, title)

Scores == {Score(i) : i \in 1..Len(offers)}

MaxScore == CHOOSE m \in Scores : \A x \in Scores : x <= m

SomeRelevant == \E i \in 1..Len(offers) : Score(i) > 0

\* the offers with the maximum score
Top == {i \in 1..Len(offers) : Score(i) = MaxScore}

\* the priority of an offer as a number, 1 when absent
Prio(i) == GetPriority(offers[i]).v

C3_Fallback ==
    call.op = "match" =>
        /\ (call.num = 0) <=> (FallbackOffers(offers) = {})
        /\ call.num # 0 => call.num \in 1..Len(offers) /\ offers[call.num].isDict
        /\ (~SomeRelevant /\ FallbackOffers(offers) # {}) => call.num = call.rnd
        /\ offers = <<>> => call.num = 0

\* no offer of a store of two scores > 0, one scores exactly 0, and the fallback
\* returned the second
C3_Witness ==
    /\ call.op = "match"
    /\ Len(offers) = 2
    /\ ~SomeRelevant
    /\ \E i \in 1..2 : Score(i) = 0
    /\ call.num = 2

----------------------------------------------------------------------------
(* Properties of generate_cta_html *)

\* the string entries of ctaTemplates, in order
StringTemplates(offer) ==
    IF offer.ctaTemplates.k = "list"
    THEN SelectSeq(offer.ctaTemplates.v, LAMBDA e : e.k = "str") ELSE <<>>

\* the offer URL, "#" when the offer holds no string URL
UrlOf(offer) == IF offer.url.k = "str" THEN offer.url.v ELSE <<"#">>

\* the tracked URL of the claim: URL, one separator, the UTM parameters
ExpectedTrackedUrl(offer) ==
    UrlOf(offer)
    \o (IF \E i \in 1..Len(UrlOf(offer)) : UrlOf(offer)[i] = "?" THEN <<"&">> ELSE <<"?">>)
    \o <<"u","t","m","_","s","o","u","r","c","e","=",
         "w","e","a","l","t","h","a","u","t","o","m","a","t","i","o","n",
         "&","u","t","m","_","m","e","d","i","u","m","=","b","l","o","g",
         "&","u","t","m","_","c","a","m","p","a","i","g","n","=">>
    \o (IF offer.id.k = "absent" THEN <<"o","f","f","e","r">> ELSE offer.id.v)

\* the positions where the placeholder {{url}} starts in a template
PlaceholderStarts(tmpl) == {i \in 1..Len(tmpl) : StartsAt(tmpl, i, UrlPlaceholder)}

\* the template with the text at every placeholder position replaced by url
Substituted(tmpl, url) ==
    Join([i \in 1..Len(tmpl) |->
            IF i \in PlaceholderStarts(tmpl) THEN url
            ELSE IF \E q \in PlaceholderStarts(tmpl) : q < i /\ i < q + Len(UrlPlaceholder)
                 THEN <<>>
                 ELSE <<tmpl[i]>>])

\* C4: for an offer with at least one string template, generate_cta_html returns one of
\* the string templates with every {{url}} replaced by the tracked URL: the offer URL
\* ("#" when the offer has none), one separator (& when the URL holds a ?, else ?),
\* then utm_source=wealthautomation&utm_medium=blog&utm_campaign=<id, or "offer">.
C4_RenderedCta ==
    (call.op = "cta" /\ call.offer.isDict /\ StringTemplates(call.offer) # <<>>)
    => /\ call.tmpl \in 1..Len(StringTemplates(call.offer))
       /\ call.out = Substituted(StringTemplates(call.offer)[call.tmpl].v,
                                 ExpectedTrackedUrl(call.offer))

\* a CTA was rendered from a template holding the placeholder, for an offer whose URL
\* already holds a ?, and the result holds the URL followed by &utm_source
C4_Witness ==
    /\ call.op = "cta"
    /\ call.offer.url.k = "str"
    /\ HasSub(call.offer.url.v, <<"?">>)
    /\ StringTemplates(call.offer) # <<>>
    /\ PlaceholderStarts(StringTemplates(call.offer)[call.tmpl].v) # {}
    /\ HasSub(call.out, call.offer.url.v \o <<"&","u","t","m","_","s","o","u","r","c","e">>)

\* ctaTemplates is a list and one of its entries is no string
HasNonStringTemplate(offer) ==
    /\ offer.ctaTemplates.k = "list"
    /\ \E i \in 1..Len(offer.ctaTemplates.v) : offer.ctaTemplates.v[i].k # "str"

\* C9 as stated: generate_cta_html returns "" whenever ctaTemplates is absent, not a
\* list, an empty list, or a list containing a non-string entry.
C9_EmptyUnlessAllStrings ==
    (/\ call.op = "cta"
     /\ call.offer.isDict
     /\ \/ call.offer.ctaTemplates.k # "list"
        \/ call.offer.ctaTemplates.v = <<>>
        \/ HasNonStringTemplate(call.offer))
    => call.out = <<>>

\* C9 amended: generate_cta_html returns "" whenever ctaTemplates is absent, not a
\* list, an empty list, or a list without any string entry; and for a list that mixes
\* string and non-string entries it renders one of the string entries.
C9_EmptyWithoutStringTemplate ==
    /\ (call.op = "cta" /\ StringTemplates(call.offer) = <<>>) => call.out = <<>>
    /\ (/\ call.op = "cta"
        /\ call.offer.isDict
        /\ HasNonStringTemplate(call.offer)
        /\ StringTemplates(call.offer) # <<>>)
       => call.out = Substituted(StringTemplates(call.offer)[call.tmpl].v,
                                 ExpectedTrackedUrl(call.offer))

\* generate_cta_html returned "" for an offer whose ctaTemplates is a non-empty list
\* of non-strings
C9_Witness ==
    /\ call.op = "cta"
    /\ call.offer.isDict
    /\ call.offer.ctaTemplates.k = "list"
    /\ call.offer.ctaTemplates.v # <<>>
    /\ StringTemplates(call.offer) = <<>>
    /\ call.out = <<>>

----------------------------------------------------------------------------
(* Properties of inject_cta_into_content.  After an Inject step call.out is the   *)
(* content before the injection and doc the content after it.                     *)

\* the wrapped CTA of the last injection
Wrapped == CtaWrapper(generate_cta_html(call.offer, call.tmpl))

\* the last injection rendered a CTA that is not empty
Rendered ==
    /\ call.op = "inject"
    /\ call.offer.isDict
    /\ StringTemplates(call.offer) # <<>>
    /\ StringTemplates(call.offer)[call.tmpl].v # <<>>

\* where the paragraph closings </p> start in s, ignoring case
Closings(s) ==
    {i \in 1..(Len(s) - 3) :
        s[i] = "<" /\ s[i + 1] = "/" /\ s[i + 2] \in {"p", "P"} /\ s[i + 3] = ">"}

\* the start of the j-th paragraph closing of s
NthClosing(s, j) ==
    LET cs == Closings(s)
    IN CHOOSE m \in cs : Cardinality({x \in cs : x <= m}) = j

\* the last index of the delimiter segment of the j-th closing: the closing and the
\* whitespace that follows it
DelimiterEnd(s, j) ==
    LET m == NthClosing(s, j)
    IN CHOOSE e \in (m + 3)..Len(s) :
         /\ \A x \in (m + 4)..e : IsSpace(s[x])
         /\ e = Len(s) \/ ~IsSpace(s[e + 1])

\* what position "end" returns for the content and CTA of the last injection
EndResult == call.out \o <<"\n","\n">> \o Wrapped

\* C5 as stated: "middle" on content with at most two paragraph closings returns what
\* "end" returns.
C5_FallbackUpToTwo ==
    (Rendered /\ call.pos = "middle" /\ Cardinality(Closings(call.out)) <= 2)
    => doc = EndResult

\* C5 amended: "middle" on content with at most one paragraph closing returns exactly
\* what "end" returns for the same content and CTA, and on content with two or more
\* closings it does not: the fallback boundary lies between 1 and 2 paragraphs.
C5_FallbackUpToOne ==
    (Rendered /\ call.pos = "middle")
    => (Cardinality(Closings(call.out)) <= 1 <=> doc = EndResult)

\* a middle injection of a rendered CTA into content with exactly one closing fell
\* back to the end
C5_Witness ==
    /\ Rendered
    /\ call.pos = "middle"
    /\ Cardinality(Closings(call.out)) = 1
    /\ doc = EndResult

\* C6: when middle injection does not fall back (two or more closings), the result is
\* the content with the wrapped CTA inserted once, right after the delimiter segment of
\* the ceil(k/2)-th of the k closings; so it is never inside a paragraph nor before the
\* first closing, and taking the wrapper out gives the content back.
C6_MiddleInsertion ==
    (Rendered /\ call.pos = "middle" /\ Cardinality(Closings(call.out)) >= 2)
    => LET k == Cardinality(Closings(call.out))
           e == DelimiterEnd(call.out, (k + 1) \div 2)
       IN doc = SubSeq(call.out, 1, e) \o Wrapped \o SubSeq(call.out, e + 1, Len(call.out))

\* a middle injection into content with an even number (four or more) of closings,
\* where the closing before the CTA is followed by whitespace
C6_Witness ==
    /\ Rendered
    /\ call.pos = "middle"
    /\ Cardinality(Closings(call.out)) >= 4
    /\ Cardinality(Closings(call.out)) % 2 = 0
    /\ LET k == Cardinality(Closings(call.out))
       IN DelimiterEnd(call.out, k \div 2) > NthClosing(call.out, k \div 2) + 3
    /\ doc # EndResult
    /\ Len(doc) = Len(call.out) + Len(Wrapped)

\* one injection of a rendered CTA at "end", at an unrecognised position, or at "start"
C7_OneInjection ==
    /\ (Rendered /\ call.pos \in {"end", "top"}) => doc = call.out \o <<"\n","\n">> \o Wrapped
    /\ (Rendered /\ call.pos = "start") => doc = Wrapped \o <<"\n","\n">> \o call.out

\* an injection at "end" that follows an injection at "end": a second block is appended
C7_SecondInjection ==
    (/\ Rendered
     /\ call.pos = "end"
     /\ injections' = injections + 1
     /\ Rendered'
     /\ call'.pos = "end")
    => doc' = call.out \o <<"\n","\n">> \o Wrapped \o <<"\n","\n">> \o Wrapped'

\* C7: with a rendered CTA, "end" and every unrecognised position return content +
\* blank line + wrapped CTA, "start" returns wrapped CTA + blank line + content; there
\* is no detection of an earlier CTA block: a second injection at "end" yields the
\* content followed by two CTA blocks.
C7_EndAndStart == []C7_OneInjection /\ [][C7_SecondInjection]_vars

\* the same CTA was injected at "end" twice and doc is the content followed by the
\* wrapper twice
C7_Witness ==
    /\ Rendered
    /\ call.pos = "end"
    /\ injections = 2
    /\ doc = content \o <<"\n","\n">> \o Wrapped \o <<"\n","\n">> \o Wrapped

\* the CTA of the last injection is empty: the offer is no record, has no string
\* template, or the chosen template is empty
NothingRendered ==
    /\ call.op = "inject"
    /\ \/ ~call.offer.isDict
       \/ StringTemplates(call.offer) = <<>>
       \/ StringTemplates(call.offer)[call.tmpl].v = <<>>

\* C8: when CTA rendering yields "" the injection returns the content unchanged, for
\* every position; and when the store is empty the cycle's offer step matches no offer
\* and leaves the blog and the email content unchanged.
C8_NoCtaNoChange ==
    /\ NothingRendered => doc = call.out
    /\ (pc = "publish" /\ offers = <<>>)
       => /\ selected_offer = 0
          /\ blog_content_with_cta = content
          /\ email_content_with_cta = email

\* a middle injection, into content with two or more closings, of an offer whose
\* chosen template is the empty string, after the offer step of the cycle has run
C8_Witness ==
    /\ NothingRendered
    /\ call.offer.isDict
    /\ StringTemplates(call.offer) # <<>>
    /\ call.pos = "middle"
    /\ Cardinality(Closings(call.out)) >= 2
    /\ doc = call.out
    /\ pc = "publish"

\* the offer step of the cycle ran on an empty store
C8_EmptyStoreReached == pc = "publish" /\ offers = <<>>

----------------------------------------------------------------------------
(* Properties of is_duplicate_blog_post.  After a CheckDuplicate step call.out is  *)
(* the topic asked about and call.num is 1 when the answer was True.               *)

\* the last step was a duplicate check (a step that moves the clock or appends to the
\* log forgets the call)
Checked == call.op = "dup"

\* the records of the log whose normalized title is the normalized topic
SameTopic(topic) ==
    {i \in 1..Len(recent_posts) :
        NormalizedPostTitle(recent_posts[i].title) = Normalize(topic)}

\* the age of record i, in days
Age(i) == now - recent_posts[i].timestamp

\* C10: is_duplicate_blog_post(topic, history, 7) is True exactly when the history holds
\* a record with the normalized title of the topic that is at most 7 days old: True at
\* T+6 days and at exactly T+7 days, False when every such record is 8 or more days
\* old, and False on an empty history.
C10_DuplicateWindow ==
    Checked =>
        LET same == SameTopic(call.out)
        IN /\ (call.num = 1) <=> (\E i \in same : Age(i) <= 7)
           /\ (\E i \in same : Age(i) \in {6, 7}) => call.num = 1
           /\ (\A i \in same : Age(i) >= 8) => call.num = 0
           /\ recent_posts = <<>> => call.num = 0

\* a topic is reported duplicate on the strength of a record that is exactly 7 days
\* old, logged under a title with the "- Key Strategies (timestamp)" suffix
C10_Witness ==
    /\ Checked
    /\ call.num = 1
    /\ SameTopic(call.out) # {}
    /\ \A i \in SameTopic(call.out) :
         Age(i) = 7 /\ recent_posts[i].title # call.out /\ Len(recent_posts[i].title) > 20
    /\ Len(recent_posts) = 2

----------------------------------------------------------------------------
(* Properties of the daily poster.  After a RunDailyPost step call.out is the topic  *)
(* the cycle ran for, call.idx the offer the cycle used and call.num is 1 when the   *)
(* title was appended to the log; after a SelectTopic step call.out is the topic     *)
(* returned, call.idx its index, call.pos the branch and call.num is 1 when the log  *)
(* file could be read.                                                               *)

\* the records of posts that make a topic a duplicate: same normalized title, at most 7
\* days old
RecentUses(topic, posts) ==
    {i \in 1..Len(posts) :
        /\ NormalizedPostTitle(posts[i].title) = Normalize(topic)
        /\ now - posts[i].timestamp <= 7}

\* C11: the title that run_daily_post logs for a topic t, "<t> - Key Strategies
\* (<timestamp>)", is reduced by the guard's suffix stripping and normalization to the
\* normalization of t, so that t is a duplicate of itself right after its run.
C11_TopicRecognisesItself ==
    (call.op = "daily" /\ call.num = 1) =>
        LET post == recent_posts[Len(recent_posts)]
        IN /\ NormalizedPostTitle(post.title) = Normalize(call.out)
           /\ is_duplicate_blog_post(call.out, load_recent_blog_posts(recent_posts, TRUE),
                                     DaysWindow, now)

\* the history that the last select_topic() loaded
LoadedPosts == load_recent_blog_posts(recent_posts, call.num = 1)

\* the candidates that are no duplicates in the loaded history
FreshCandidates ==
    {k \in 1..Len(ROTATING_TOPICS) : RecentUses(ROTATING_TOPICS[k], LoadedPosts) = {}}

\* C12: select_topic returns a topic that is no duplicate within the 7-day window of the
\* history it loaded whenever at least one candidate of the rotating list is no
\* duplicate, whatever the history and the shuffle order.
C12_FreshTopicSelected ==
    (call.op = "select" /\ FreshCandidates # {}) =>
        /\ call.idx \in FreshCandidates
        /\ call.pos = "fresh"

\* select_topic read a log in which exactly one candidate is no duplicate, and returned it
C12_Witness ==
    /\ call.op = "select"
    /\ call.num = 1
    /\ Cardinality(FreshCandidates) = 1
    /\ call.idx \in FreshCandidates
    /\ recent_posts # <<>>

\* C13: for every history (empty, unreadable, or with every candidate flagged duplicate)
\* select_topic returns a member of the candidate list, never no topic.
C13_AlwaysATopic ==
    call.op = "select" =>
        /\ call.idx \in 1..Len(ROTATING_TOPICS)
        /\ call.out = ROTATING_TOPICS[call.idx]

\* every candidate is flagged duplicate, no candidate occurs in the oldest record, and
\* select_topic returned a random candidate
C13_Witness ==
    /\ call.op = "select"
    /\ call.num = 1
    /\ FreshCandidates = {}
    /\ call.pos = "random"
    /\ call.idx \in 1..Len(ROTATING_TOPICS)

\* the most recent use of candidate k in the loaded history (-1 when it has none)
LastUse(k) ==
    LET uses == {i \in 1..Len(LoadedPosts) :
                   NormalizedPostTitle(LoadedPosts[i].title) = Normalize(ROTATING_TOPICS[k])}
    IN IF uses = {} THEN -1
       ELSE LoadedPosts[CHOOSE i \in uses :
                          \A j \in uses : LoadedPosts[j].timestamp <= LoadedPosts[i].timestamp
                       ].timestamp

\* the candidates whose normalized title is that of the oldest record of the loaded history
MatchOldest ==
    IF LoadedPosts = <<>> THEN {}
    ELSE {k \in 1..Len(ROTATING_TOPICS) :
            Normalize(ROTATING_TOPICS[k])
              = NormalizedPostTitle(LoadedPosts[OldestPost(LoadedPosts)].title)}

\* C14: when every candidate is flagged duplicate, select_topic returns the least recently
\* used candidate, the one whose most recent use is not younger than that of any other
\* candidate; a random candidate is returned only when no candidate matches the oldest
\* record.
C14_LeastRecentlyUsed ==
    (call.op = "select" /\ FreshCandidates = {}) =>
        /\ call.pos = "random" => MatchOldest = {}
        /\ call.pos # "random" =>
             \A k \in 1..Len(ROTATING_TOPICS) : LastUse(call.idx) <= LastUse(k)

\* the records written for a topic by earlier runs that are inside the 7-day window
TopicRecords(topic) ==
    {i \in 1..(Len(recent_posts) - call.num) :
        /\ recent_posts[i].title = BlogTitle(topic, recent_posts[i].timestamp)
        /\ now - recent_posts[i].timestamp <= 7}

\* the log before the last run
LogBefore == SubSeq(recent_posts, 1, Len(recent_posts) - call.num)

\* C15: no cycle is run for a topic that has a topic record inside the 7-day window, as
\* long as at least one candidate topic was no duplicate when the topic was selected and
\* the records were appended.
C15_NoRepeatedTopic ==
    (/\ call.op = "daily"
     /\ call.num = 1
     /\ \E k \in 1..Len(ROTATING_TOPICS) : RecentUses(ROTATING_TOPICS[k], LogBefore) = {})
    => TopicRecords(call.out) = {}

\* the offers of the store that can be used for a CTA
ValidOffers == {i \in 1..Len(offers) : Truthy(offers[i])}

\* C16: after every cycle in which an offer was used for a CTA, a CTA record (timestamp,
\* offer) is appended to the CTA log, and an offer with a CTA record inside the 3-day
\* window is not used again while another valid offer is available.
C16_CtaLogged ==
    (call.op = "daily" /\ call.idx # 0) =>
        /\ recent_ctas # <<>>
        /\ recent_ctas[Len(recent_ctas)] = [offer_name |-> call.idx, timestamp |-> now]
        /\ ValidOffers # {call.idx} =>
             \A i \in 1..(Len(recent_ctas) - 1) :
                 recent_ctas[i].offer_name = call.idx => now - recent_ctas[i].timestamp > 3

----------------------------------------------------------------------------
(* Properties of run_wealthautomation_cycle, create_post and                         *)
(* create_and_send_broadcast.  events lists what the cycle did, in order.            *)

\* the positions of events at which e happened
Happened(e) == {i \in 1..Len(events) : events[i] = e}

\* C17: when the content generator fails in a cycle, the cycle does not abort: it goes on
\* through the offer, publish and email stages with fallback text.
C17_GeneratorFailureTolerated ==
    Happened("generate_content raised") # {} =>
        /\ pc # "aborted"
        /\ pc = "finished" =>
             /\ Happened("create_post") # {}
             /\ Happened("create_and_send_broadcast") # {}

\* what C18 says of a state of the cycle: publish and email are attempted once each, in
\* that order, before the cycle is finished; the contents carry no CTA after a failed
\* offer stage; the email carries no link after a failed publish
StagesInOrder ==
    /\ pc \in {"email", "webhook", "finished"} =>
         Cardinality(Happened("create_post")) = 1
    /\ pc \in {"webhook", "finished"} =>
         /\ Cardinality(Happened("create_and_send_broadcast")) = 1
         /\ \A i \in Happened("create_post") :
              \A j \in Happened("create_and_send_broadcast") : i < j
         /\ Happened("create_post returned") = {} \/ results.post_id = 0 =>
              results.final_email_content = email_content_with_cta
    /\ (pc \in {"publish", "email", "webhook", "finished"}
          /\ Happened("offer stage failed") # {}) =>
         /\ blog_content_with_cta = content
         /\ email_content_with_cta = email
    /\ Happened("finished") # {} =>
         \A i \in Happened("create_and_send_broadcast") :
           \A j \in Happened("finished") : i < j

\* C18: in every cycle that got past content generation and integration setup, the
\* publish stage and then the email stage are each attempted, in that order, and the cycle
\* reaches its finished step, whatever the outcome (success, failure result, raised error)
\* of offer injection, publishing and email sending; a failed offer stage leaves the blog
\* and email content without CTA and a failed publish leaves the email without the link.
C18_StagesInOrder ==
    /\ []StagesInOrder
    /\ (pc = "offer") ~> (pc = "finished" /\ Happened("finished") # {})

\* a cycle finished although the offer stage, create_post and the broadcast all raised
C18_Witness ==
    /\ pc = "finished"
    /\ Happened("offer stage failed") # {}
    /\ Happened("create_post raised") # {}
    /\ Happened("broadcast raised") # {}
    /\ results.final_email_content = email

\* C19: create_post returns either a post id with a post URL and no fallback file, or no
\* post id and no post URL after exactly one attempt to write the fallback file; it never
\* fails without attempting the fallback write.  create_and_send_broadcast reports
\* sent = true exactly when it returns a broadcast id, and otherwise returns the result of
\* one fallback write.
C19_ResultOrFallback ==
    /\ pc \in {"email", "webhook", "finished"} =>
         /\ Happened("create_post raised") # {} => Happened("wp fallback write") # {}
         /\ Happened("create_post returned") # {} =>
              \/ /\ results.post_id # 0
                 /\ results.post_url # <<>>
                 /\ results.wp_fallback_file = "None"
                 /\ Happened("wp fallback write") = {}
              \/ /\ results.post_id = 0
                 /\ results.post_url = <<>>
                 /\ Cardinality(Happened("wp fallback write")) = 1
    /\ pc \in {"webhook", "finished"} =>
         /\ Happened("broadcast returned") # {}
         /\ results.email_sent <=> results.email_blast_id # 0
         /\ results.email_blast_id # 0 => Happened("ck fallback write") = {}
         /\ results.email_blast_id = 0 => Cardinality(Happened("ck fallback write")) = 1

\* C20: when the credentials of a collaborator are missing (no broadcaster API key; no CMS
\* user, password or token), the dependent request is never sent: the operation returns a
\* null id with a failure flag and the result of a fallback write instead of raising.
C20_MissingCredentials ==
    /\ (pc \in {"email", "webhook", "finished"} /\ ~wp_integration.jwt_token) =>
         /\ Happened("post request") = {}
         /\ Happened("create_post returned") # {}
         /\ results.post_id = 0
         /\ results.wp_auth_method = "JWT Auth Failure"
         /\ Cardinality(Happened("wp fallback write")) = 1
    /\ (pc \in {"webhook", "finished"} /\ ~ck_integration.api_key_v4) =>
         /\ Happened("broadcast request") = {}
         /\ Happened("broadcast returned") # {}
         /\ results.email_blast_id = 0
         /\ ~results.email_sent
         /\ Cardinality(Happened("ck fallback write")) = 1

----------------------------------------------------------------------------
(* Properties of the history loaders.  After a load call.out is the list returned   *)
(* and call.num is 1 when the remote fallback was consulted.                        *)

Loaded == call.op \in {"load posts", "load ctas"}

\* C21 as stated: with the fallback configured, it is consulted exactly when the primary
\* log is unavailable or empty (missing, read error, or no parseable record), and never
\* when the primary yields a record
C21_FallbackWhenEmpty ==
    (Loaded /\ sheets.configured)
        => (call.num = 1 <=> (\/ local_log.kind # "read"
                              \/ LineRecords(local_log.lines) = <<>>))

\* C21, amended: the fallback is consulted exactly when it is configured and the primary
\* log is missing or reading it raised; a log read to its end is final, with or without
\* a record
C21_FallbackWhenUnreadable ==
    Loaded => (call.num = 1 <=> (sheets.configured /\ local_log.kind # "read"))

C21_Witness ==
    /\ call.op = "load ctas"
    /\ local_log.kind = "read error"
    /\ sheets.configured
    /\ sheets.response = "values"
    /\ call.num = 1
    /\ call.out # <<>>

----------------------------------------------------------------------------
(* More properties of _score_offer *)

\* the entries that one may add to the keywords or the categories of an offer
AddedEntries == {Str(<<"a","i">>), Str(<<"B","o","t">>), Str(<<"z","z">>), NonStr}

\* the list field with one more entry; a field that is absent becomes a list
WithEntry(field, entry) ==
    IF field.k = "list" THEN List(Append(field.v, entry))
    ELSE IF field.k = "absent" THEN List(<<entry>>)
    ELSE field

\* the text with more text after it, so that more entries may occur in it
Extensions == {<<>>, <<" ","a","i">>, <<" ","B","O","T">>}

\* the priority is a number that is at least 0, given or defaulted
NonNegativePriority(offer) ==
    offer.isDict /\ IsNumber(GetPriority(offer)) /\ GetPriority(offer).v >= 0

\* C22: for an offer with a numeric priority of at least 0 the score is non-negative,
\* and it does not get lower when a keyword or a category is added to the offer, nor
\* when the body or the title is extended so that more keywords or categories occur
C22_ScoreMonotone ==
    (call.op = "score" /\ NonNegativePriority(call.offer)) =>
        /\ call.num >= 0
        /\ \A entry \in AddedEntries :
             /\ _score_offer([call.offer EXCEPT !.keywords = WithEntry(@, entry)],
                             content, title) >= call.num
             /\ _score_offer([call.offer EXCEPT !.categories = WithEntry(@, entry)],
                             content, title) >= call.num
        /\ \A more \in Extensions :
             /\ _score_offer(call.offer, content \o more, title) >= call.num
             /\ _score_offer(call.offer, content, title \o more) >= call.num

\* a scored offer with priority >= 0 that a keyword in the title already raised, and
\* that one more keyword, and a longer body, raise further
C22_Witness ==
    /\ call.op = "score"
    /\ NonNegativePriority(call.offer)
    /\ call.num > GetPriority(call.offer).v
    /\ \E entry \in AddedEntries :
         _score_offer([call.offer EXCEPT !.keywords = WithEntry(@, entry)],
                      content, title) > call.num
    /\ \E more \in Extensions :
         _score_offer(call.offer, content \o more, title) > call.num

----------------------------------------------------------------------------
(* More properties of match_content_to_offer *)

\* ctaTemplates is structurally valid: a list with a string template
ValidCtaTemplates(offer) == offer.isDict /\ ValidTemplates(offer) # <<>>

\* the store with the ctaTemplates of every offer removed
WithoutTemplates(offs) ==
    SubSeq([i \in 1..Len(offs) |-> [offs[i] EXCEPT !.ctaTemplates = NoField]],
           1, Len(offs))

\* C23 as stated: when the store holds an offer with valid ctaTemplates, the offer
\* returned has valid ctaTemplates
C23_NeverInvalidTemplates ==
    (/\ call.op = "match"
     /\ \E i \in 1..Len(offers) : ValidCtaTemplates(offers[i]))
    => (call.num # 0 /\ ValidCtaTemplates(offers[call.num]))

\* C23, amended: match_content_to_offer does not examine ctaTemplates: it returns what
\* it returns for the same store without any ctaTemplates, so an offer with invalid
\* ctaTemplates is returned when it wins the relevance match or is drawn by the fallback,
\* and generate_cta_html returns the empty string for it
C23_TemplatesNotExamined ==
    call.op = "match" =>
        /\ call.num = match_content_to_offer(WithoutTemplates(offers), content, title,
                                             call.rnd)
        /\ (call.num # 0 /\ ~ValidCtaTemplates(offers[call.num]))
             => \A t \in TemplateChoices(offers[call.num]) :
                  generate_cta_html(offers[call.num], t) = <<>>

\* an offer with invalid ctaTemplates wins the relevance match against an offer with
\* valid ctaTemplates
C23_Witness ==
    /\ call.op = "match"
    /\ call.num # 0
    /\ ~ValidCtaTemplates(offers[call.num])
    /\ \E i \in 1..Len(offers) : ValidCtaTemplates(offers[i]) /\ Score(i) > 0
    /\ Score(call.num) > 0

\* the record has no keywords, no categories and no priority
Untargeted(offer) ==
    /\ offer.isDict
    /\ offer.keywords.k = "absent"
    /\ offer.categories.k = "absent"
    /\ offer.priority.k = "absent"

\* a store made only of such records
UntargetedStore == offers # <<>> /\ \A i \in 1..Len(offers) : Untargeted(offers[i])

\* C24 as stated: a record without keywords, categories and priority is scored 0, so it
\* is no relevance match, and a store made only of such records takes the random
\* fallback
C24_UntargetedScoresZero ==
    /\ (call.op = "score" /\ Untargeted(call.offer)) => call.num = 0
    /\ (call.op = "match" /\ UntargetedStore) => (~SomeRelevant /\ call.num = call.rnd)

\* C24, amended: such a record is scored 1, the default priority, without raising; it
\* is a relevance match, and a store made only of such records returns its first record
\* whatever random.choice would give
C24_UntargetedScoresDefaultPriority ==
    /\ (call.op = "score" /\ Untargeted(call.offer)) => call.num = 1
    /\ (call.op = "match" /\ UntargetedStore) => (SomeRelevant /\ call.num = 1)

\* a store of two such records: the first is returned where random.choice would have
\* picked the second
C24_Witness ==
    /\ call.op = "match"
    /\ UntargetedStore
    /\ Len(offers) = 2
    /\ call.rnd = 2
    /\ call.num = 1

----------------------------------------------------------------------------
(* Properties of _load_offers.  offers is what _load_offers returned for source. *)

\* the positions of the records among the entries of the source
RecordPositions == {i \in 1..Len(source.entries) : source.entries[i].isDict}

\* the position of the k-th record
RecordPosition(k) ==
    CHOOSE i \in RecordPositions : Cardinality({j \in RecordPositions : j <= i}) = k

\* C25: _load_offers returns the empty list for a source that is missing, no valid JSON,
\* no mapping with an "offers" key or whose "offers" is no list; otherwise it returns
\* the record entries of the list, in source order, and skips every other entry
C25_LoadedRecords ==
    /\ source.kind # "ok" => offers = <<>>
    /\ source.kind = "ok" =>
         /\ Len(offers) = Cardinality(RecordPositions)
         /\ \A k \in 1..Len(offers) : offers[k] = source.entries[RecordPosition(k)]

\* a list of two entries, the first no record: the record is loaded and can be matched
C25_Witness ==
    /\ source.kind = "ok"
    /\ Len(source.entries) = 2
    /\ ~source.entries[1].isDict
    /\ source.entries[2].isDict
    /\ offers = <<source.entries[2]>>
    /\ call.op = "match"
    /\ call.num = 1

----------------------------------------------------------------------------
(* Properties of is_duplicate_cta.  After a CheckDuplicateCta step call.out is the   *)
(* offer name asked about and call.num is 1 when the answer was True.               *)

\* the text without the white space around it
Trimmed(s) ==
    LET inner == {i \in 1..Len(s) : ~IsSpace(s[i])}
    IN SubSeq(s, CHOOSE a \in inner \cup {Len(s) + 1} : \A x \in inner : a <= x,
                 CHOOSE b \in inner \cup {0} : \A x \in inner : x <= b)

\* the records of the CTA log with the name asked about, up to case and the white
\* space around it; punctuation counts
SameOffer(name) ==
    {i \in 1..Len(recent_ctas) :
        Trimmed(Lower(recent_ctas[i].offer_name)) = Trimmed(Lower(name))}

\* the age of CTA record i, in days
CtaAge(i) == now - recent_ctas[i].timestamp

\* C26: is_duplicate_cta(offer_name, history, 3) is True exactly when the history holds
\* a record with the same name, up to case and surrounding white space only, that is at
\* most 3 days old: True at exactly T+3 days, False when every such record is 4 or more
\* days old
C26_CtaDuplicateWindow ==
    call.op = "cta dup" =>
        LET same == SameOffer(call.out)
        IN /\ (call.num = 1) <=> (\E i \in same : CtaAge(i) <= 3)
           /\ (\E i \in same : CtaAge(i) = 3) => call.num = 1
           /\ (\A i \in same : CtaAge(i) >= 4) => call.num = 0

\* an offer is reported duplicate on the strength of a record that is exactly 3 days
\* old and written in another case, next to a newer record that differs in punctuation
C26_Witness ==
    /\ call.op = "cta dup"
    /\ call.num = 1
    /\ Len(recent_ctas) = 2
    /\ SameOffer(call.out) = {1}
    /\ CtaAge(1) = 3
    /\ recent_ctas[1].offer_name # call.out
    /\ CtaAge(2) < 3

\* an offer whose name differs from a fresh record in punctuation only is no duplicate
C26_PunctuationWitness ==
    /\ call.op = "cta dup"
    /\ call.num = 0
    /\ \E i \in 1..Len(recent_ctas) :
         /\ CtaAge(i) = 0
         /\ Normalize(recent_ctas[i].offer_name) = Normalize(call.out)

----------------------------------------------------------------------------
(* More properties of run_wealthautomation_cycle: requests and fallback writes of    *)
(* one cycle.                                                                        *)

\* how often e happened
Count(e) == Cardinality(Happened(e))

\* the fallback writes that follow a failed publish, and a failed broadcast
WpFallbackWrites == Count("wp fallback write") + Count("wp emergency fallback write")

CkFallbackWrites == Count("ck fallback write") + Count("ck emergency fallback write")

\* C27 as stated: in one cycle at most one post-creation request, at most one broadcast
\* request and at most one authentication-token request are sent, and a failed publish
\* or broadcast is followed by at most one fallback file write
C27_NoRepeatedRequest ==
    /\ Count("post request") <= 1
    /\ Count("broadcast request") <= 1
    /\ Count("token request") <= 1
    /\ WpFallbackWrites <= 1
    /\ CkFallbackWrites <= 1

\* the token requests of a cycle: at most two, the second one sent by create_post
TokenRequestsBounded ==
    /\ Count("token request") <= 2
    /\ Count("token request") = 2 =>
         \E c \in Happened("create_post") : \E t \in Happened("token request") : c < t

\* C27, amended: in one cycle at most one post-creation request and at most one broadcast
\* request are sent, and a failed publish or broadcast is followed by at most one fallback
\* file write; the authentication-token request is sent at most twice: once when the
\* integration is constructed and, only when the integration then holds no token, once
\* more by create_post
C27_RequestsPerCycle ==
    /\ [](/\ Count("post request") <= 1
          /\ Count("broadcast request") <= 1
          /\ TokenRequestsBounded
          /\ WpFallbackWrites <= 1
          /\ CkFallbackWrites <= 1)
    /\ [][(pc = "publish" /\ wp_integration.jwt_token)
            => Happened("token request")' = Happened("token request")]_vars

\* a finished cycle in which the token request of the constructor failed and create_post
\* asked again, got a token and created the post
C27_Witness ==
    /\ pc = "finished"
    /\ Count("token request") = 2
    /\ Count("post request") = 1
    /\ results.post_id # 0
    /\ Count("broadcast request") = 1
    /\ CkFallbackWrites = 1

----------------------------------------------------------------------------
(* Properties of run_daily_post when invocations overlap *)

\* the invocations that appended their record
Appended == {p \in Callers : runs[p].logged = "written"}

\* the records of the log with the title of the invocation of p
RecordsOf(p) ==
    {i \in 1..Len(recent_posts) :
        recent_posts[i].title = BlogTitle(runs[p].topic, runs[p].stamp)}

\* C28: the duplicate check and the append of the topic record are separate steps and
\* nothing is locked between them: an invocation that passed the check has written
\* nothing to the log until its own append, so the log holds exactly the records of the
\* invocations that reached line 341, and another invocation that checks in between
\* finds the log as it was before the first started
C28_CheckAndAppendUnlocked ==
    /\ Len(recent_posts) = Cardinality(Appended)
    /\ \A p \in Callers :
         /\ runs[p].pc \in {"checked", "cycled"} => runs[p].logged = "none"
         /\ runs[p].pc # "idle" => runs[p].seen <= Len(recent_posts)
         /\ runs[p].logged = "written" => RecordsOf(p) # {}

\* the execution of the claim: both invocations passed the check for the same topic on
\* an empty log, so before either appended, both ran the cycle for it without raising
\* and both appended their record, 0 days apart
C28_Witness ==
    /\ \A p \in Callers :
         /\ runs[p].pc = "done"
         /\ runs[p].seen = 0
         /\ runs[p].cycle \in {"finished", "saved to fallback"}
         /\ runs[p].logged = "written"
         /\ runs[p].returned = "True"
    /\ runs[1].topic = runs[2].topic
    /\ runs[1].topic = ROTATING_TOPICS[1]
    /\ Len(recent_posts) = 2
    /\ recent_posts[2].timestamp - recent_posts[1].timestamp < DaysWindow
    /\ NormalizedPostTitle(recent_posts[1].title) = Normalize(runs[1].topic)
    /\ NormalizedPostTitle(recent_posts[2].title) = Normalize(runs[2].topic)

\* the invocations that returned
Returned == {p \in Callers : runs[p].pc = "done"}

\* C29 as stated: an invocation whose cycle returns without raising (finished, stopped
\* early, or with the post saved to a fallback file only) appends exactly one topic record
\* and returns True; it appends no record and returns False exactly when the cycle raises
C29_OneRecordPerReturnedCycle ==
    \A p \in Returned :
        /\ runs[p].cycle # "raised" =>
             /\ runs[p].returned = "True"
             /\ runs[p].logged = "written"
             /\ RecordsOf(p) # {}
        /\ (runs[p].returned = "False" /\ runs[p].logged = "none")
             <=> runs[p].cycle = "raised"

\* C29, amended: an invocation whose cycle returns without raising calls log_blog_post
\* exactly once and returns True, whether the record was appended or the append failed
\* (the error is swallowed), so it appends at most one topic record, and exactly one when
\* the log can be written; it does not call log_blog_post and returns False exactly when
\* the cycle raises
C29_OneAppendAttemptPerReturnedCycle ==
    /\ Len(recent_posts) = Cardinality(Appended)
    /\ \A p \in Returned :
         /\ runs[p].cycle # "raised" =>
              /\ runs[p].returned = "True"
              /\ runs[p].logged \in {"written", "failed"}
              /\ runs[p].logged = "written" => RecordsOf(p) # {}
         /\ (runs[p].returned = "False" /\ runs[p].logged = "none")
              <=> runs[p].cycle = "raised"

\* one invocation returned True with its record appended although its cycle stopped
\* early, the other returned False without a record because its cycle raised
C29_Witness ==
    /\ Returned = Callers
    /\ runs[1].cycle = "stopped early"
    /\ runs[1].returned = "True"
    /\ runs[1].logged = "written"
    /\ runs[2].cycle = "raised"
    /\ runs[2].returned = "False"
    /\ Len(recent_posts) = 1
    /\ RecordsOf(1) = {1}

\* the webhook request at position w of events was due: the publish stage had returned a
\* post id and a post URL, the email stage had run, and MAKE_WEBHOOK_URL is set
WebhookInOrder(w) ==
    /\ \E c \in Happened("create_post returned") : c < w
    /\ \E b \in Happened("broadcast returned") \cup Happened("broadcast raised") : b < w
    /\ results.post_id # 0
    /\ results.post_url # <<>>
    /\ make_webhook_url

\* C30: in every cycle the webhook is triggered at most once, only after the publish stage
\* and the email stage have run, and only when the publish stage returned a post id and a
\* post URL and a webhook URL is configured; a failed webhook call does not keep the cycle
\* from its finished step
C30_WebhookOnce ==
    /\ [](/\ Count("webhook request") <= 1
          /\ \A w \in Happened("webhook request") : WebhookInOrder(w)
          /\ Happened("webhook failed") # {} =>
               (pc = "finished" /\ events[Len(events)] = "finished"))
    /\ (pc = "webhook") ~> (pc = "finished" /\ Happened("finished") # {})

\* a cycle that finished after its webhook call failed, the email stage having failed too
C30_Witness ==
    /\ pc = "finished"
    /\ Count("webhook request") = 1
    /\ Happened("webhook failed") # {}
    /\ Happened("broadcast raised") # {}
    /\ make_webhook_url

====
